---- MODULE Spec2Model ----
(***************************************************************************)
(* Verification model of infernofspatcher: the patch staging and revert    *)
(* layer (patcher.hpp), the driver (main.cpp), and the address resolution  *)
(* and fixup decoding of the analyser (cache.hpp, analyser.hpp, bit.hpp).  *)
(*                                                                         *)
(* Files are byte sequences, the sidecar is a sequence of characters (one  *)
(* character per element), 64-bit and 32-bit words are tuples of 16-bit     *)
(* limbs, least significant limb first.                                    *)
(***************************************************************************)
EXTENDS Integers, Sequences, FiniteSets, TLC

VARIABLES
    files,        \* path -> [exists, data]: the cache files on disk
    sidecar,      \* path -> [exists, data]: <path>.InfernoOriginalBytes, as characters
    write_queue,  \* Patcher::write_queue: staged path -> (file_off -> bytes)
    printed,      \* what the last print_changes displayed
    last,         \* the last operation performed and its outcome
    precommit,    \* the files as they were when the last flush started
    nwrites,      \* number of Patcher::write calls made so far
    pc,           \* position of the driver inside run()
    cli,          \* PatcherCLI flags of the current run
    reverted,     \* cache members already passed to Patcher::revert in this run
    recipe,       \* the writes the patch recipes of this run stage, in order
    history,      \* (files, sidecar) observed after each committed run
    runs,         \* number of the current run of the driver
    caches,       \* CacheAnalyser::caches: sequence of [path, header]
    symbols_cache,\* CacheAnalyser::symbols_cache: [present, path, header]
    ptr_file,     \* bytes of the stream read_ptr_at reads its fixup word from
    res           \* result of the last analyser query

vars == <<files, sidecar, write_queue, printed, last, precommit, nwrites,
          pc, cli, reverted, recipe, history, runs, caches, symbols_cache, ptr_file, res>>

patcherVars == <<files, sidecar, write_queue, printed, last, precommit, nwrites>>
driverVars == <<pc, cli, reverted, recipe, history, runs>>
analyserVars == <<caches, symbols_cache, ptr_file, res>>

(***************************************************************************)
(* Bounds of the model.                                                    *)
(***************************************************************************)
MaxWrites == 2
MaxRuns == 3

MainPath == "P"
SubPath == "P.1"
SymbolsPath == "P.symbols"
Paths == {MainPath, SubPath}

\* Little-endian bytes of NOP (0xD503201F) and RET (0xD65F03C0).
NOP_BYTES == <<31, 32, 3, 213>>
RET_BYTES == <<192, 3, 95, 214>>
ZERO4 == <<0, 0, 0, 0>>

\* Initial contents of the cache files: Main has 16 bytes, Sub has 4.
MainContents == {[i \in 1..16 |-> 170], [i \in 1..16 |-> i * 13 + 5]}
SubContents == {<<170, 187, 204, 221>>}

\* The (path, file_off, bytes) triples a Patcher::write call is given:
\* the same offset twice, overlapping ranges, a range past the end of the
\* file, and a second file.
WriteInputs ==
    {<<MainPath, 4, NOP_BYTES>>, <<MainPath, 4, RET_BYTES>>, <<MainPath, 2, RET_BYTES>>,
     <<MainPath, 0, <<0, 10>>>>, <<MainPath, 14, NOP_BYTES>>,
     <<SubPath, 0, ZERO4>>}

NoFile == [exists |-> FALSE, data |-> <<>>]
File(d) == [exists |-> TRUE, data |-> d]

(***************************************************************************)
(* Text formatting and parsing (iostream operator<< with std::hex,         *)
(* operator>> on strings, std::stoi / std::stoll with base 16).            *)
(***************************************************************************)
HexDigits == <<"0", "1", "2", "3", "4", "5", "6", "7", "8", "9", "a", "b", "c", "d", "e", "f">>

RECURSIVE ToHex(_)
ToHex(n) ==
    IF n < 16 THEN <<HexDigits[n + 1]>>
    ELSE ToHex(n \div 16) \o <<HexDigits[(n % 16) + 1]>>

UpperHexDigits == <<"0", "1", "2", "3", "4", "5", "6", "7", "8", "9", "A", "B", "C", "D", "E", "F">>
IsHexDigit(c) == \E i \in 1..16 : HexDigits[i] = c \/ UpperHexDigits[i] = c
HexVal(c) == (CHOOSE i \in 1..16 : HexDigits[i] = c \/ UpperHexDigits[i] = c) - 1

IsSpace(c) == c \in {" ", "\n", "\t"}

\* operator>>(istream, string): the whitespace-separated tokens of a text.
RECURSIVE Tokens(_, _)
Tokens(text, cur) ==
    IF text = <<>> THEN (IF cur = <<>> THEN <<>> ELSE <<cur>>)
    ELSE IF IsSpace(Head(text))
         THEN (IF cur = <<>> THEN <<>> ELSE <<cur>>) \o Tokens(Tail(text), <<>>)
         ELSE Tokens(Tail(text), Append(cur, Head(text)))

\* The digits a strtol-style conversion consumes: the longest hex prefix.
RECURSIVE HexPrefixVal(_, _)
HexPrefixVal(s, acc) ==
    IF s = <<>> \/ ~IsHexDigit(Head(s)) THEN acc
    ELSE HexPrefixVal(Tail(s), acc * 16 + HexVal(Head(s)))

\* std::stoi / std::stoll (str, nullptr, 16): optional sign, then hex digits;
\* no digit at all is std::invalid_argument.
ParseHex(s) ==
    LET neg == s # <<>> /\ Head(s) = "-"
        body == IF s # <<>> /\ Head(s) \in {"-", "+"} THEN Tail(s) ELSE s
    IN  IF body = <<>> \/ ~IsHexDigit(Head(body))
        THEN [ok |-> FALSE, value |-> 0]
        ELSE [ok |-> TRUE,
              value |-> IF neg THEN 0 - HexPrefixVal(body, 0) ELSE HexPrefixVal(body, 0)]

\* The longest run of hex digits at the start of s.
RECURSIVE HexRun(_)
HexRun(s) ==
    IF s = <<>> \/ ~IsHexDigit(Head(s)) THEN <<>> ELSE <<Head(s)>> \o HexRun(Tail(s))

RECURSIVE StripZeros(_)
StripZeros(s) == IF Len(s) > 1 /\ Head(s) = "0" THEN StripZeros(Tail(s)) ELSE s

\* What strtol / strtoll consume in base 16: an optional sign, an optional
\* "0x" or "0X" that a hex digit follows, then the longest run of hex
\* digits; ok = FALSE when there is no digit.
Strtol16(s) ==
    LET neg == s # <<>> /\ Head(s) = "-"
        unsigned == IF s # <<>> /\ Head(s) \in {"-", "+"} THEN Tail(s) ELSE s
        prefixed == /\ Len(unsigned) >= 3
                    /\ unsigned[1] = "0" /\ unsigned[2] \in {"x", "X"}
                    /\ IsHexDigit(unsigned[3])
        run == HexRun(IF prefixed THEN SubSeq(unsigned, 3, Len(unsigned)) ELSE unsigned)
    IN  [ok |-> run # <<>>, neg |-> neg, digits |-> StripZeros(run)]

\* The magnitude of the digits does not fit a signed integer of 4 * nibbles
\* bits (the most negative value does).
Overflows(r, nibbles) ==
    \/ Len(r.digits) > nibbles
    \/ /\ Len(r.digits) = nibbles
       /\ HexVal(r.digits[1]) >= 8
       /\ ~(r.neg /\ r.digits = <<"8">> \o [i \in 1..(nibbles - 1) |-> "0"])

\* std::stoi(str, nullptr, 16): std::invalid_argument without a digit,
\* std::out_of_range when the value does not fit an int.
stoi(s) ==
    LET r == Strtol16(s)
    IN  IF ~r.ok THEN [ok |-> FALSE, why |-> "invalid_argument", value |-> 0]
        ELSE IF Overflows(r, 8) THEN [ok |-> FALSE, why |-> "out_of_range", value |-> 0]
        ELSE [ok |-> TRUE, why |-> "",
              value |-> IF r.neg /\ Len(r.digits) = 8 /\ HexVal(r.digits[1]) = 8
                        THEN (0 - 2147483647) - 1
                        ELSE IF r.neg THEN 0 - HexPrefixVal(r.digits, 0)
                        ELSE HexPrefixVal(r.digits, 0)]

\* std::stoll(str, nullptr, 16), the value given for magnitudes below 2^31;
\* wide marks the larger values a long long still holds.
stoll(s) ==
    LET r == Strtol16(s)
        small == Len(r.digits) < 8 \/ (Len(r.digits) = 8 /\ HexVal(r.digits[1]) < 8)
    IN  IF ~r.ok THEN [ok |-> FALSE, why |-> "invalid_argument", value |-> 0, wide |-> FALSE]
        ELSE IF Overflows(r, 16)
             THEN [ok |-> FALSE, why |-> "out_of_range", value |-> 0, wide |-> FALSE]
        ELSE IF ~small THEN [ok |-> TRUE, why |-> "", value |-> 0, wide |-> TRUE]
        ELSE [ok |-> TRUE, why |-> "", wide |-> FALSE,
              value |-> IF r.neg THEN 0 - HexPrefixVal(r.digits, 0)
                        ELSE HexPrefixVal(r.digits, 0)]

(***************************************************************************)
(* File primitives.                                                        *)
(***************************************************************************)
\* ostream::write of one byte at position pos; a write at or past the end
\* extends the file, the gap reading as zero.
RECURSIVE PutByte(_, _, _)
PutByte(data, pos, b) ==
    IF pos < Len(data) THEN [data EXCEPT ![pos + 1] = b]
    ELSE IF pos = Len(data) THEN Append(data, b)
    ELSE PutByte(Append(data, 0), pos, b)

RECURSIVE PutBytes(_, _, _)
PutBytes(data, pos, bytes) ==
    IF bytes = <<>> THEN data
    ELSE PutBytes(PutByte(data, pos, Head(bytes)), pos + 1, Tail(bytes))

\* read_stream of n bytes at pos: all n bytes or a failure.
CanRead(data, pos, n) == n = 0 \/ pos + n <= Len(data)
ReadBytes(data, pos, n) == [i \in 1..n |-> data[pos + i]]

(***************************************************************************)
(* Patcher (patcher.hpp).                                                  *)
(***************************************************************************)
EmptyMap == [x \in {} |-> <<>>]

\* std::map iteration order: ascending keys.
RECURSIVE Ascending(_)
Ascending(S) ==
    IF S = {} THEN <<>>
    ELSE LET m == CHOOSE x \in S : \A y \in S : x <= y
         IN  <<m>> \o Ascending(S \ {m})

\* The orders in which an unordered_map may enumerate the keys S.
Orders(S) ==
    {s \in [1..Cardinality(S) -> S] : \A i, j \in 1..Cardinality(S) : i # j => s[i] # s[j]}

\* Patcher::write: try_emplace(path), then map::emplace(file_off, bytes),
\* which inserts only when the key is not there yet.
PatcherWrite(wq, p, off, bytes) ==
    LET m == IF p \in DOMAIN wq THEN wq[p] ELSE EmptyMap
        m2 == IF off \in DOMAIN m THEN m
              ELSE [o \in (DOMAIN m) \cup {off} |-> IF o = off THEN bytes ELSE m[o]]
    IN  [q \in (DOMAIN wq) \cup {p} |-> IF q = p THEN m2 ELSE wq[q]]

\* Patcher::print_changes: per path, the entries in ascending offset order.
PrintChangesOf(wq) ==
    [p \in DOMAIN wq |->
        LET offs == Ascending(DOMAIN wq[p])
        IN  [i \in 1..Len(offs) |-> <<offs[i], wq[p][offs[i]]>>]]

\* for (byte : orig_bytes) diff_file << uint16_t(byte) << " ";
RECURSIVE FormatBytes(_)
FormatBytes(bytes) ==
    IF bytes = <<>> THEN <<>>
    ELSE ToHex(Head(bytes)) \o <<" ">> \o FormatBytes(Tail(bytes))

\* One sidecar line as flush emits it.
FormatLine(off, orig) == ToHex(off) \o <<":", " ">> \o FormatBytes(orig) \o <<"\n">>

\* Mutant of FlushEntries: the bytes are recorded after the new ones were
\* written, so the sidecar holds the patch instead of the displaced bytes.
RECURSIVE FlushEntriesRecordsNew(_, _, _, _)
FlushEntriesRecordsNew(offs, m, data, text) ==
    IF offs = <<>> THEN [ok |-> TRUE, data |-> data, text |-> text]
    ELSE LET off == Head(offs)
             bytes == m[off]
         IN  IF ~CanRead(data, off, Len(bytes))
             THEN [ok |-> FALSE, data |-> data, text |-> text]
             ELSE FlushEntriesRecordsNew(Tail(offs), m, PutBytes(data, off, bytes),
                                         text \o FormatLine(off, bytes))

\* The inner loop of Patcher::flush over the entries of one path: read the
\* current bytes, write the new ones, record the displaced bytes.  A short
\* read throws and leaves what was done so far.
RECURSIVE FlushEntries(_, _, _, _)
FlushEntries(offs, m, data, text) ==
    IF offs = <<>> THEN [ok |-> TRUE, data |-> data, text |-> text]
    ELSE LET off == Head(offs)
             bytes == m[off]
         IN  IF ~CanRead(data, off, Len(bytes))
             THEN [ok |-> FALSE, data |-> data, text |-> text]
             ELSE FlushEntries(Tail(offs), m, PutBytes(data, off, bytes),
                               text \o FormatLine(off, ReadBytes(data, off, Len(bytes))))

\* Patcher::flush over the paths in the order the unordered_map yields them.
RECURSIVE FlushAll(_, _, _, _)
FlushAll(order, wq, fs, sc) ==
    IF order = <<>> THEN [ok |-> TRUE, files |-> fs, sidecar |-> sc]
    ELSE LET p == Head(order) IN
         IF ~fs[p].exists THEN [ok |-> FALSE, files |-> fs, sidecar |-> sc]
         ELSE LET r == FlushEntries(Ascending(DOMAIN wq[p]), wq[p], fs[p].data, <<>>)
                  fs2 == [fs EXCEPT ![p] = File(r.data)]
                  sc2 == [sc EXCEPT ![p] = File(r.text)]
              IN  IF r.ok THEN FlushAll(Tail(order), wq, fs2, sc2)
                  ELSE [ok |-> FALSE, files |-> fs2, sidecar |-> sc2]

\* The token loop of Patcher::revert.  why: "invalid_argument" and
\* "out_of_range" are the exceptions of stoi / stoll, "seek" and "malformed"
\* the std::runtime_error of a failed seekp and of a byte too large.  An
\* offset of 2^31 or more ("wide") lies beyond the files of this model.
RECURSIVE Replay(_, _, _)
Replay(tokens, data, cursor) ==
    IF tokens = <<>> THEN [ok |-> TRUE, why |-> "", data |-> data]
    ELSE LET tok == Head(tokens) IN
         IF tok[Len(tok)] = ":"
         THEN LET off == stoll(SubSeq(tok, 1, Len(tok) - 1))
              IN  IF ~off.ok THEN [ok |-> FALSE, why |-> off.why, data |-> data]
                  ELSE IF off.wide THEN [ok |-> FALSE, why |-> "wide", data |-> data]
                  ELSE IF off.value < 0 THEN [ok |-> FALSE, why |-> "seek", data |-> data]
                  ELSE Replay(Tail(tokens), data, off.value)
         ELSE LET v == stoi(tok)
              IN  IF ~v.ok THEN [ok |-> FALSE, why |-> v.why, data |-> data]
                  ELSE IF v.value < 0 \/ v.value > 255
                       THEN [ok |-> FALSE, why |-> "malformed", data |-> data]
                       ELSE Replay(Tail(tokens), PutByte(data, cursor, v.value), cursor + 1)

\* Mutant of RevertOf: the target file is opened before the sidecar is
\* looked for.
RevertOfOpensFirst(p, fs, sc) ==
    IF ~fs[p].exists THEN [ok |-> FALSE, why |-> "open", files |-> fs, sidecar |-> sc]
    ELSE IF ~sc[p].exists THEN [ok |-> TRUE, why |-> "", files |-> fs, sidecar |-> sc]
    ELSE LET r == Replay(Tokens(sc[p].data, <<>>), fs[p].data, 0)
         IN  [ok |-> r.ok, why |-> r.why,
              files |-> [fs EXCEPT ![p] = File(r.data)],
              sidecar |-> IF r.ok THEN [sc EXCEPT ![p] = NoFile] ELSE sc]

\* Patcher::revert(path) on the file system (fs, sc).
RevertOf(p, fs, sc) ==
    IF ~sc[p].exists THEN [ok |-> TRUE, why |-> "", files |-> fs, sidecar |-> sc]
    ELSE IF ~fs[p].exists THEN [ok |-> FALSE, why |-> "open", files |-> fs, sidecar |-> sc]
    ELSE LET r == Replay(Tokens(sc[p].data, <<>>), fs[p].data, 0)
         IN  [ok |-> r.ok, why |-> r.why,
              files |-> [fs EXCEPT ![p] = File(r.data)],
              sidecar |-> IF r.ok THEN [sc EXCEPT ![p] = NoFile] ELSE sc]

\* The record kept in `last` for an operation.
Op(name, p, off, bytes, ok) ==
    [op |-> name, path |-> p, off |-> off, bytes |-> bytes, ok |-> ok, why |-> "",
     prev |-> [op |-> last.op, ok |-> last.ok]]

FirstOp == [op |-> "init", path |-> "", off |-> 0, bytes |-> <<>>, ok |-> TRUE, why |-> "",
            prev |-> [op |-> "init", ok |-> TRUE]]

(***************************************************************************)
(* Fixed-width unsigned integers (std::uint64_t, std::uint32_t) as tuples  *)
(* of 16-bit limbs, least significant limb first.  All arithmetic wraps at *)
(* the width of the operands.                                              *)
(***************************************************************************)
LimbBase == 65536

Width(v) == 16 * Len(v)

\* The w-bit value of a natural number below 2^31.
FromNat(n, w) ==
    [j \in 1..(w \div 16) |->
        IF j = 1 THEN n % LimbBase ELSE IF j = 2 THEN n \div LimbBase ELSE 0]

\* The 64-bit value with 16-bit limbs l3:l2:l1:l0 (l3 most significant).
FromLimbs(l3, l2, l1, l0) == <<l0, l1, l2, l3>>

U64(n) == FromNat(n, 64)

\* Bitwise and / or of two limbs.
RECURSIVE And16(_, _)
And16(x, y) ==
    IF x = 0 \/ y = 0 THEN 0
    ELSE (x % 2) * (y % 2) + 2 * And16(x \div 2, y \div 2)

RECURSIVE Or16(_, _)
Or16(x, y) ==
    IF x = 0 THEN y ELSE IF y = 0 THEN x
    ELSE (IF (x % 2) + (y % 2) >= 1 THEN 1 ELSE 0) + 2 * Or16(x \div 2, y \div 2)

RECURSIVE AndFrom(_, _, _)
AndFrom(a, b, j) ==
    IF j > Len(a) THEN <<>> ELSE <<And16(a[j], b[j])>> \o AndFrom(a, b, j + 1)

RECURSIVE OrFrom(_, _, _)
OrFrom(a, b, j) ==
    IF j > Len(a) THEN <<>> ELSE <<Or16(a[j], b[j])>> \o OrFrom(a, b, j + 1)

BVAnd(a, b) == AndFrom(a, b, 1)
BVOr(a, b) == OrFrom(a, b, 1)

LimbAt(a, j) == IF j >= 1 /\ j <= Len(a) THEN a[j] ELSE 0

\* a << n and a >> n (logical), 0 <= n < width.
RECURSIVE ShlFrom(_, _, _)
ShlFrom(a, n, j) ==
    IF j > Len(a) THEN <<>>
    ELSE LET k == n \div 16
             r == n % 16
         IN  <<((LimbAt(a, j - k) * (2 ^ r)) % LimbBase)
               + (LimbAt(a, j - k - 1) \div (2 ^ (16 - r)))>> \o ShlFrom(a, n, j + 1)

RECURSIVE ShrFrom(_, _, _)
ShrFrom(a, n, j) ==
    IF j > Len(a) THEN <<>>
    ELSE LET k == n \div 16
             r == n % 16
         IN  <<(LimbAt(a, j + k) \div (2 ^ r))
               + ((LimbAt(a, j + k + 1) % (2 ^ r)) * (2 ^ (16 - r)))>> \o ShrFrom(a, n, j + 1)

Shl(a, n) == ShlFrom(a, n, 1)
Shr(a, n) == ShrFrom(a, n, 1)

\* a + b and a - b modulo 2^width.
RECURSIVE AddFrom(_, _, _, _)
AddFrom(a, b, j, carry) ==
    IF j > Len(a) THEN <<>>
    ELSE LET sum == a[j] + b[j] + carry
         IN  <<sum % LimbBase>> \o AddFrom(a, b, j + 1, sum \div LimbBase)

RECURSIVE SubFrom(_, _, _, _)
SubFrom(a, b, j, borrow) ==
    IF j > Len(a) THEN <<>>
    ELSE LET d == a[j] - b[j] - borrow
         IN  <<IF d < 0 THEN d + LimbBase ELSE d>>
             \o SubFrom(a, b, j + 1, IF d < 0 THEN 1 ELSE 0)

BVAdd(a, b) == AddFrom(a, b, 1, 0)
BVSub(a, b) == SubFrom(a, b, 1, 0)

\* Unsigned a < b, decided at the most significant limb where they differ.
RECURSIVE LtFrom(_, _, _)
LtFrom(a, b, j) ==
    IF j < 1 THEN FALSE
    ELSE IF a[j] # b[j] THEN a[j] < b[j]
    ELSE LtFrom(a, b, j - 1)

BVLt(a, b) == LtFrom(a, b, Len(a))
BVLe(a, b) == a = b \/ BVLt(a, b)

IsZero(a) == \A j \in 1..Len(a) : a[j] = 0

\* The value of a fixed-width integer below 2^30.
FitsNat(a) == a[2] < 16384 /\ \A j \in 3..Len(a) : a[j] = 0
ToNat(a) == a[1] + LimbBase * a[2]

(***************************************************************************)
(* bit.hpp                                                                 *)
(***************************************************************************)
\* make_bit_mask<T>(start, length) = T(((T(1) << length) - 1) << start)
make_bit_mask(w, start, length) ==
    Shl(BVSub(Shl(FromNat(1, w), length), FromNat(1, w)), start)

\* bit_test(val, i) = (val & make_bit_mask<T>(i, 1)) != 0
bit_test(val, i) == ~IsZero(BVAnd(val, make_bit_mask(Width(val), i, 1)))

\* bit_extract(val, start, length) = T((val & make_bit_mask<T>(start, length)) >> start)
bit_extract(val, start, length) ==
    Shr(BVAnd(val, make_bit_mask(Width(val), start, length)), start)

(***************************************************************************)
(* Cache header (cache.hpp).  A header stream is given by what the parser  *)
(* reads from it: the u32 pair at 0x10 and the 40-byte mapping records     *)
(* found at mapping_off, the u64 at 0xE0, the UUID at 0x190, the u32 at    *)
(* 0x48 and the local-symbols info it points to, the image directories at  *)
(* 0x18 and at 0x1C0 with the image records they point to, and the         *)
(* subcache directory at 0x188 with its records.                           *)
(***************************************************************************)
Mapping(base, size, file_off) == [base |-> base, size |-> size, file_off |-> file_off]

\* A directory field pair (offset, count) and the records found at offset.
Dir(off, count, records) == [off |-> off, count |-> count, records |-> records]
NoDir == Dir(0, 0, <<>>)

\* The local-symbols info found at the offset stored at 0x48.
NoLocalInfo == [nlist_off |-> 0, strings_off |-> 0, entries_count |-> 0, entries |-> <<>>]

\* A stream with a mapping table and nothing else.
HeaderStream(mapping_off, records, cache_base) ==
    [mapping_off |-> mapping_off, mapping_count |-> Len(records), records |-> records,
     cache_base |-> cache_base, uuid |-> FALSE,
     local_symbols_off |-> 0, local_info |-> NoLocalInfo,
     images_18 |-> NoDir, images_1C0 |-> NoDir, subcaches_188 |-> NoDir]

DecDigits == <<"0", "1", "2", "3", "4", "5", "6", "7", "8", "9">>

\* std::to_string of a natural number.
RECURSIVE to_string(_)
to_string(n) ==
    IF n < 10 THEN DecDigits[n + 1]
    ELSE to_string(n \div 10) \o DecDigits[(n % 10) + 1]

\* DyldCacheHeader::Subcache records i.. of a directory.
RECURSIVE Subcaches(_, _, _)
Subcaches(records, i, is_v1) ==
    IF i > Len(records) THEN <<>>
    ELSE <<[vm_off |-> records[i].vm_off,
            suffix |-> IF is_v1 THEN "." \o to_string(i) ELSE records[i].suffix]>>
         \o Subcaches(records, i + 1, is_v1)

\* LocalSymbolsInfo::entries: emplace of (cache_base + dylib_offset, entry)
\* for each record in order; a key already present is kept.
RECURSIVE LocalEntries(_, _, _)
LocalEntries(records, cache_base, acc) ==
    IF records = <<>> THEN acc
    ELSE LET r == Head(records)
             key == BVAdd(cache_base, r.dylib_offset)
             e == [nlist_start_index |-> r.nlist_start_index, nlist_count |-> r.nlist_count]
         IN  LocalEntries(Tail(records), cache_base,
                          IF key \in DOMAIN acc THEN acc
                          ELSE [k \in (DOMAIN acc) \cup {key} |-> IF k = key THEN e ELSE acc[k]])

\* DyldCacheHeader::LocalSymbolsInfo(stream, local_info_off, is_64, cache_base)
LocalSymbolsInfo(local_info_off, info, cache_base) ==
    IF local_info_off = 0
    THEN [ok |-> TRUE, nlist_off |-> 0, strings_off |-> 0, entries |-> EmptyMap]
    ELSE IF info.entries_count > Len(info.entries)
    THEN [ok |-> FALSE, nlist_off |-> 0, strings_off |-> 0, entries |-> EmptyMap]
    ELSE [ok |-> TRUE, nlist_off |-> info.nlist_off, strings_off |-> info.strings_off,
          entries |-> LocalEntries(SubSeq(info.entries, 1, info.entries_count),
                                   cache_base, EmptyMap)]

\* What a header holds when its constructor throws.
BadHeader(why) ==
    [ok |-> FALSE, why |-> why, mappings |-> <<>>, cache_base |-> U64(0),
     symbol_file_uuid |-> FALSE, subcaches |-> <<>>, images |-> <<>>,
     local_symbols_off |-> 0,
     local_symbols |-> [nlist_off |-> 0, strings_off |-> 0, entries |-> EmptyMap]]

\* Mutant of HeaderLayout: the subcache directory is taken to exist from
\* offset 0x190 on, like the symbol-file UUID.
HeaderLayoutSplitLate(mapping_off) ==
    [symbol_file_support |-> mapping_off >= 400,
     split |-> mapping_off >= 400,
     subcache_v1 |-> mapping_off <= 456]

\* The three version gates of the constructor, decided by mapping_off:
\* 0x190 = offsetof symbolFileUUID, 0x18C = offsetof subCacheArrayCount,
\* 0x1C8 = offsetof cacheSubType.
HeaderLayout(mapping_off) ==
    [symbol_file_support |-> mapping_off >= 400,
     split |-> mapping_off >= 396,
     subcache_v1 |-> mapping_off <= 456]

\* Mutant of ImageCountCheck: a Main header without images is rejected in
\* either layout.
ImageCountCheckAlways(split, image_count) == image_count = 0

\* if (split && image_count == 0) throw "main cache expected, but got a subcache"
ImageCountCheck(split, image_count) == split /\ image_count = 0

\* DyldCacheHeader::DyldCacheHeader(stream, type, main_cache_base).  Reading
\* more records than the stream holds is a failed read.
DyldCacheHeader(stream, type, main_cache_base) ==
    LET mapping_off == stream.mapping_off
        read_mappings == type # "Symbols" /\ mapping_off # 0 /\ stream.mapping_count # 0
        mappings == IF read_mappings THEN SubSeq(stream.records, 1, stream.mapping_count)
                    ELSE <<>>
        layout == HeaderLayout(mapping_off)
        symbol_file_support == type = "Symbols" \/ layout.symbol_file_support
        symbol_file_uuid == type # "Symbols" /\ layout.symbol_file_support /\ stream.uuid
        read_locals == type = "Symbols" \/ ~symbol_file_uuid
        local_symbols_off == IF read_locals THEN stream.local_symbols_off ELSE 0
        locals == IF read_locals
                  THEN LocalSymbolsInfo(stream.local_symbols_off, stream.local_info,
                                        IF main_cache_base = U64(0) THEN stream.cache_base
                                        ELSE main_cache_base)
                  ELSE LocalSymbolsInfo(0, NoLocalInfo, U64(0))
        image_dir == IF layout.split THEN stream.images_1C0 ELSE stream.images_18
        read_images == image_dir.off # 0 /\ image_dir.count # 0
        sub_dir == stream.subcaches_188
        read_subs == layout.split /\ sub_dir.off # 0 /\ sub_dir.count # 0
        h == [ok |-> TRUE, why |-> "", mappings |-> mappings, cache_base |-> stream.cache_base,
              symbol_file_uuid |-> FALSE, subcaches |-> <<>>, images |-> <<>>,
              local_symbols_off |-> 0,
              local_symbols |-> [nlist_off |-> 0, strings_off |-> 0, entries |-> EmptyMap]]
    IN  IF read_mappings /\ stream.mapping_count > Len(stream.records) THEN BadHeader("read")
        ELSE IF type = "Sub" THEN h
        ELSE IF ~locals.ok THEN BadHeader("read")
        ELSE LET h2 == [h EXCEPT !.symbol_file_uuid = symbol_file_uuid,
                                 !.local_symbols_off = local_symbols_off,
                                 !.local_symbols = [nlist_off |-> locals.nlist_off,
                                                    strings_off |-> locals.strings_off,
                                                    entries |-> locals.entries]]
             IN  IF type # "Main" THEN h2
                 ELSE IF ImageCountCheck(layout.split, image_dir.count) THEN BadHeader("format")
                 ELSE IF read_images /\ image_dir.count > Len(image_dir.records)
                 THEN BadHeader("read")
                 ELSE IF read_subs /\ sub_dir.count > Len(sub_dir.records) THEN BadHeader("read")
                 ELSE [h2 EXCEPT
                         !.images = IF read_images
                                    THEN SubSeq(image_dir.records, 1, image_dir.count)
                                    ELSE <<>>,
                         !.subcaches = IF read_subs
                                       THEN Subcaches(SubSeq(sub_dir.records, 1, sub_dir.count),
                                                      1, layout.subcache_v1)
                                       ELSE <<>>]

\* Mutant of ScanMappings: the end of the range is taken as inclusive.
RECURSIVE ScanMappingsInclusive(_, _, _)
ScanMappingsInclusive(mappings, vm_addr, i) ==
    IF i > Len(mappings) THEN [ok |-> FALSE, off |-> U64(0), index |-> 0]
    ELSE LET m == mappings[i] IN
         IF BVLe(m.base, vm_addr) /\ BVLe(vm_addr, BVAdd(m.base, m.size))
         THEN [ok |-> TRUE, off |-> BVAdd(m.file_off, BVSub(vm_addr, m.base)), index |-> i]
         ELSE ScanMappingsInclusive(mappings, vm_addr, i + 1)

\* The loop of vm_addr_to_file_off from mapping i on.
RECURSIVE ScanMappings(_, _, _)
ScanMappings(mappings, vm_addr, i) ==
    IF i > Len(mappings) THEN [ok |-> FALSE, off |-> U64(0), index |-> 0]
    ELSE LET m == mappings[i] IN
         IF BVLe(m.base, vm_addr) /\ BVLt(vm_addr, BVAdd(m.base, m.size))
         THEN [ok |-> TRUE, off |-> BVAdd(m.file_off, BVSub(vm_addr, m.base)), index |-> i]
         ELSE ScanMappings(mappings, vm_addr, i + 1)

\* DyldCacheHeader::vm_addr_to_file_off; ok = FALSE is std::out_of_range.
vm_addr_to_file_off(header, vm_addr) == ScanMappings(header.mappings, vm_addr, 1)

(***************************************************************************)
(* Analyser (analyser.hpp).                                                *)
(***************************************************************************)
Entry(path, header) == [path |-> path, header |-> header]
NoEntry == [present |-> FALSE, path |-> "", header |-> <<>>]

\* Mutant of OpenSubs: a subcache file that cannot be opened is skipped.
RECURSIVE OpenSubsSkipsMissing(_, _, _, _)
OpenSubsSkipsMissing(base_path, subcaches, streams, main_cache_base) ==
    IF subcaches = <<>> THEN [ok |-> TRUE, entries |-> <<>>]
    ELSE LET sub_path == base_path \o Head(subcaches).suffix
             rest == OpenSubsSkipsMissing(base_path, Tail(subcaches), streams, main_cache_base)
         IN  IF sub_path \notin DOMAIN streams THEN rest
             ELSE LET h == DyldCacheHeader(streams[sub_path], "Sub", main_cache_base)
                  IN  IF h.ok /\ rest.ok
                      THEN [ok |-> TRUE, entries |-> <<Entry(sub_path, h)>> \o rest.entries]
                      ELSE [ok |-> FALSE, entries |-> <<>>]

\* The subcache loop of the CacheAnalyser constructor.
RECURSIVE OpenSubs(_, _, _, _)
OpenSubs(base_path, subcaches, streams, main_cache_base) ==
    IF subcaches = <<>> THEN [ok |-> TRUE, entries |-> <<>>]
    ELSE LET sub_path == base_path \o Head(subcaches).suffix IN
         IF sub_path \notin DOMAIN streams THEN [ok |-> FALSE, entries |-> <<>>]
         ELSE LET h == DyldCacheHeader(streams[sub_path], "Sub", main_cache_base)
                  rest == OpenSubs(base_path, Tail(subcaches), streams, main_cache_base)
              IN  IF h.ok /\ rest.ok
                  THEN [ok |-> TRUE, entries |-> <<Entry(sub_path, h)>> \o rest.entries]
                  ELSE [ok |-> FALSE, entries |-> <<>>]

\* CacheAnalyser::CacheAnalyser(base_path) over the openable header streams.
CacheAnalyser(base_path, streams) ==
    IF base_path \notin DOMAIN streams
    THEN [ok |-> FALSE, caches |-> <<>>, symbols_cache |-> NoEntry]
    ELSE LET main == DyldCacheHeader(streams[base_path], "Main", U64(0))
             subs == OpenSubs(base_path, main.subcaches, streams, main.cache_base)
             sym_path == base_path \o ".symbols"
             sym == IF sym_path \in DOMAIN streams
                    THEN DyldCacheHeader(streams[sym_path], "Symbols", main.cache_base)
                    ELSE [ok |-> FALSE]
         IN  IF ~main.ok \/ ~subs.ok \/ (main.symbol_file_uuid /\ ~sym.ok)
             THEN [ok |-> FALSE, caches |-> <<>>, symbols_cache |-> NoEntry]
             ELSE [ok |-> TRUE,
                   caches |-> <<Entry(base_path, main)>> \o subs.entries,
                   symbols_cache |-> IF main.symbol_file_uuid
                                     THEN [present |-> TRUE, path |-> sym_path, header |-> sym]
                                     ELSE NoEntry]

\* Mutant of ScanCaches: a later member that resolves the address is
\* preferred to an earlier one.
RECURSIVE ScanCachesLastWins(_, _, _)
ScanCachesLastWins(cs, vm_addr, i) ==
    IF i > Len(cs) THEN [ok |-> FALSE, off |-> U64(0), index |-> 0]
    ELSE LET r == ScanMappings(cs[i].header.mappings, vm_addr, 1)
             rest == ScanCachesLastWins(cs, vm_addr, i + 1)
         IN  IF rest.ok THEN rest
             ELSE IF r.ok THEN [ok |-> TRUE, off |-> r.off, index |-> i]
             ELSE rest

\* The loop of find_entry_from_vm_addr from member i on.
RECURSIVE ScanCaches(_, _, _)
ScanCaches(cs, vm_addr, i) ==
    IF i > Len(cs) THEN [ok |-> FALSE, off |-> U64(0), index |-> 0]
    ELSE LET r == vm_addr_to_file_off(cs[i].header, vm_addr) IN
         IF r.ok THEN [ok |-> TRUE, off |-> r.off, index |-> i]
         ELSE ScanCaches(cs, vm_addr, i + 1)

\* CacheAnalyser::find_entry_from_vm_addr; index is the member's position in caches.
find_entry_from_vm_addr(cs, vm_addr) == ScanCaches(cs, vm_addr, 1)

\* read_u64_le: eight bytes at off, least significant first.
RECURSIVE AssembleLE(_, _, _, _)
AssembleLE(data, off, k, w) ==
    IF k < 0 THEN FromNat(0, w)
    ELSE BVOr(Shl(FromNat(data[off + k + 1], w), 8 * k), AssembleLE(data, off, k - 1, w))

read_u64_le(data, off) ==
    IF off + 8 > Len(data) THEN [ok |-> FALSE, value |-> U64(0)]
    ELSE [ok |-> TRUE, value |-> AssembleLE(data, off, 7, 64)]

\* Mutant of read_ptr_at: a target equal to image_base is returned as it is.
read_ptr_atGe(cs, data, image_base, off) ==
    LET rd == read_u64_le(data, off)
        fixup == rd.value
        Rebased(val) == IF BVLe(image_base, val) THEN val
                        ELSE BVAdd(val, cs[1].header.cache_base)
    IN  IF ~rd.ok THEN [ok |-> FALSE, why |-> "read", val |-> U64(0)]
        ELSE IF bit_test(fixup, 63)
             THEN IF bit_test(fixup, 62)
                  THEN [ok |-> FALSE, why |-> "auth_bind", val |-> U64(0)]
                  ELSE IF IsZero(bit_extract(fixup, 32, 19))
                       THEN [ok |-> FALSE, why |-> "bind", val |-> U64(0)]
                       ELSE [ok |-> TRUE, why |-> "", val |-> Rebased(bit_extract(fixup, 0, 32))]
             ELSE [ok |-> TRUE, why |-> "", val |-> Rebased(bit_extract(fixup, 0, 36))]

\* CacheAnalyser::read_ptr_at(cache_file, image_base, off).
read_ptr_at(cs, data, image_base, off) ==
    LET rd == read_u64_le(data, off)
        fixup == rd.value
        Rebased(val) == IF BVLt(image_base, val) THEN val
                        ELSE BVAdd(val, cs[1].header.cache_base)
    IN  IF ~rd.ok THEN [ok |-> FALSE, why |-> "read", val |-> U64(0)]
        ELSE IF bit_test(fixup, 63)
             THEN IF bit_test(fixup, 62)
                  THEN [ok |-> FALSE, why |-> "auth_bind", val |-> U64(0)]
                  ELSE IF IsZero(bit_extract(fixup, 32, 19))
                       THEN [ok |-> FALSE, why |-> "bind", val |-> U64(0)]
                       ELSE [ok |-> TRUE, why |-> "", val |-> Rebased(bit_extract(fixup, 0, 32))]
             ELSE [ok |-> TRUE, why |-> "", val |-> Rebased(bit_extract(fixup, 0, 36))]

(***************************************************************************)
(* Specification Spec: one Patcher used through its public operations, in  *)
(* any order, on two files of which the second may be missing.             *)
(***************************************************************************)
NoCli == [revert_only |-> FALSE, dry_run |-> FALSE, unredact_logs |-> FALSE]
NoRecipe == [base |-> <<>>, trace |-> <<>>]
NoRes == [op |-> "none"]

DriverIdle ==
    /\ pc = "idle"
    /\ cli = NoCli
    /\ reverted = <<>>
    /\ recipe = NoRecipe
    /\ history = <<>>
    /\ runs = 0

AnalyserIdle ==
    /\ caches = <<>>
    /\ symbols_cache = NoEntry
    /\ ptr_file = <<>>
    /\ res = NoRes

Init ==
    /\ files \in {[p \in Paths |-> IF p = MainPath THEN File(m) ELSE s] :
                    m \in MainContents, s \in {File(c) : c \in SubContents} \cup {NoFile}}
    /\ sidecar = [p \in Paths |-> NoFile]
    /\ write_queue = EmptyMap
    /\ printed = EmptyMap
    /\ last = FirstOp
    /\ precommit = files
    /\ nwrites = 0
    /\ DriverIdle
    /\ AnalyserIdle

Write(p, off, bytes) ==
    /\ nwrites < MaxWrites
    /\ write_queue' = PatcherWrite(write_queue, p, off, bytes)
    /\ nwrites' = nwrites + 1
    /\ last' = Op("write", p, off, bytes, TRUE)
    /\ UNCHANGED <<files, sidecar, printed, precommit>>
    /\ UNCHANGED <<driverVars, analyserVars>>

PrintChanges ==
    /\ printed' = PrintChangesOf(write_queue)
    /\ last' = Op("print_changes", "", 0, <<>>, TRUE)
    /\ UNCHANGED <<files, sidecar, write_queue, precommit, nwrites>>
    /\ UNCHANGED <<driverVars, analyserVars>>

Flush ==
    \E order \in Orders(DOMAIN write_queue) :
        LET r == FlushAll(order, write_queue, files, sidecar) IN
        /\ files' = r.files
        /\ sidecar' = r.sidecar
        /\ precommit' = files
        /\ last' = Op("flush", "", 0, <<>>, r.ok)
        /\ UNCHANGED <<write_queue, printed, nwrites>>
        /\ UNCHANGED <<driverVars, analyserVars>>

Revert(p) ==
    LET r == RevertOf(p, files, sidecar) IN
    /\ files' = r.files
    /\ sidecar' = r.sidecar
    /\ last' = [Op("revert", p, 0, <<>>, r.ok) EXCEPT !.why = r.why]
    /\ UNCHANGED <<write_queue, printed, precommit, nwrites>>
    /\ UNCHANGED <<driverVars, analyserVars>>

Next ==
    \/ \E w \in WriteInputs : Write(w[1], w[2], w[3])
    \/ PrintChanges
    \/ Flush
    \/ \E p \in Paths : Revert(p)

Spec == Init /\ [][Next]_vars

(***************************************************************************)
(* Specification SpecSidecar: Patcher::revert on sidecars that commit did  *)
(* not write: an 8-byte file P with a sidecar of arbitrary text, and a     *)
(* sidecar left behind for a file P.1 that is gone.                        *)
(***************************************************************************)
\* Sidecar texts: well formed, without an offset, bytes too large, negative,
\* beyond the range of int, not hexadecimal, with a 0x prefix, in upper
\* case, offsets empty, negative and past the end of the file.
SidecarTexts ==
    {<<"2", ":", " ", "a", "a", " ", "b", "b">>,
     <<"a", "a", " ", "b", "b">>,
     <<"2", ":", " ", "a", "a", " ", "1", "0", "0", " ", "b", "b">>,
     <<"2", ":", " ", "a", "a", " ", "-", "1">>,
     <<"2", ":", " ", "1", "f", "f">>,
     <<"2", ":", " ", "a", "a", " ", "8", "0", "0", "0", "0", "0", "0", "0">>,
     <<"2", ":", " ", "a", "a", " ", "7", "f", "f", "f", "f", "f", "f", "f">>,
     <<"2", ":", " ", "a", "a", " ", "z", "z">>,
     <<"2", ":", " ", "1", "g">>,
     <<"2", ":", " ", "0", "x", "1", "f">>,
     <<"2", ":", " ", "F", "F">>,
     <<":", " ", "a", "a">>,
     <<"-", "2", ":", " ", "a", "a">>,
     <<"6", ":", " ", "1", " ", "2", " ", "3", " ", "4">>,
     <<"c", ":", " ", "5">>,
     <<"2", ":", " ", "a", "a", " ", "4", ":", " ", "b", "b", " ", "2", ":", " ", "c", "c">>,
     <<>>,
     <<"2", ":">>,
     <<"2", ":", " ", "0", "f", "f">>,
     <<"2", ":", " ", "1", "0", "0", "0", "0", "0", "0", "0", "0">>,
     <<"2", ":", " ", "-", "8", "0", "0", "0", "0", "0", "0", "0">>,
     <<"2", ":", " ", "f", "f", " ", "1", "0", "0">>,
     <<"1", "0", ":", "3">>,
     <<"2", ":", " ", "+", "5">>,
     <<"2", ":", " ", "a", "a", "\n", "9", ":", " ", "b", "b">>}

InitSidecar ==
    /\ files \in {[p \in Paths |-> IF p = MainPath THEN File(d) ELSE NoFile] :
                    d \in {[i \in 1..8 |-> 170], [i \in 1..8 |-> 16 * i]}}
    /\ sidecar \in {[p \in Paths |-> IF p = MainPath THEN File(t)
                                     ELSE File(<<"0", ":", " ", "a", "a">>)] :
                      t \in SidecarTexts}
    /\ write_queue = EmptyMap
    /\ printed = EmptyMap
    /\ last = FirstOp
    /\ precommit = files
    /\ nwrites = 0
    /\ DriverIdle
    /\ AnalyserIdle

NextSidecar == \E p \in Paths : Revert(p)

SpecSidecar == InitSidecar /\ [][NextSidecar]_vars

(***************************************************************************)
(* Specification SpecCommit: a Patcher in which up to three writes are     *)
(* staged, among them a range that runs past the end of the 16-byte file,  *)
(* then commits and reverts in any order.                                  *)
(***************************************************************************)
\* The buffers that three Patcher::write calls leave.
StagedQueues ==
    {PatcherWrite(PatcherWrite(PatcherWrite(EmptyMap, a[1], a[2], a[3]), b[1], b[2], b[3]),
                  c[1], c[2], c[3]) :
        a \in WriteInputs, b \in WriteInputs, c \in WriteInputs}

InitCommit ==
    /\ files \in {[p \in Paths |-> IF p = MainPath THEN File([i \in 1..16 |-> i * 13 + 5]) ELSE s] :
                    s \in {File(c) : c \in SubContents} \cup {NoFile}}
    /\ sidecar = [p \in Paths |-> NoFile]
    /\ write_queue \in StagedQueues
    /\ printed = EmptyMap
    /\ last = FirstOp
    /\ precommit = files
    /\ nwrites = 0
    /\ DriverIdle
    /\ AnalyserIdle

NextCommit ==
    \/ Flush
    \/ \E p \in Paths : Revert(p)

SpecCommit == InitCommit /\ [][NextCommit]_vars

(***************************************************************************)
(* Assembler (assembler.hpp), as far as the driver stages instructions.    *)
(***************************************************************************)
\* The 32-bit value with 16-bit halves hi:lo.
FromHalves(hi, lo) == <<lo, hi>>

NOP_INST == FromHalves(54531, 8223)     \* 0xD503201F
RET_INST == FromHalves(54879, 960)      \* 0xD65F03C0
MOVZ_INST == FromHalves(21120, 0)       \* 0x52800000

\* Assembler::u32_to_bytes: the four bytes of value, least significant first.
u32_to_bytes(value) ==
    [k \in 1..4 |-> ToNat(BVAnd(Shr(value, 8 * (k - 1)), FromNat(255, 32)))]

\* std::streamoff(u64) as a position in a file of the model; an offset of
\* 2^30 or more is past the end of every file.
ToOffset(off) == IF FitsNat(off) THEN ToNat(off) ELSE 2 ^ 30

\* Assembler::write_inst: resolve the target through the header, then stage
\* the four instruction bytes; ok = FALSE is the std::out_of_range of
\* vm_addr_to_file_off, raised before anything is staged.
write_inst(wq, path, header, target, inst) ==
    LET r == vm_addr_to_file_off(header, target)
    IN  IF ~r.ok THEN [ok |-> FALSE, wq |-> wq, off |-> 0]
        ELSE [ok |-> TRUE, off |-> ToOffset(r.off),
              wq |-> PatcherWrite(wq, path, ToOffset(r.off), u32_to_bytes(inst))]

\* LibTelephonyUtilDynamicPatches::apply_zeroes for a symbol at vm_addr.
apply_zeroes(wq, cs, vm_addr) ==
    LET e == find_entry_from_vm_addr(cs, vm_addr)
    IN  IF ~e.ok THEN [ok |-> FALSE, wq |-> wq, off |-> 0]
        ELSE [ok |-> TRUE, off |-> ToOffset(e.off),
              wq |-> PatcherWrite(wq, cs[e.index].path, ToOffset(e.off), ZERO4)]

(***************************************************************************)
(* Specification SpecRun: the driver (main.cpp, run) executed MaxRuns      *)
(* times on the same cache tree, each time with its own flags.  The patch  *)
(* recipes are data: a sequence of instruction writes through the          *)
(* Assembler and of apply_zeroes calls, fixed for the cache tree.          *)
(***************************************************************************)
\* Header streams of the cache tree: Main maps vm 0x1000.. to its 16 bytes
\* and names one subcache ".1", which maps vm 0x2000.. to its bytes.
OneImage == Dir(768, 1, <<[base |-> U64(4096), path |-> "/usr/lib/libA.dylib"]>>)
OneSub == Dir(800, 1, <<[vm_off |-> U64(4096), suffix |-> ".1"]>>)

MainStream ==
    [HeaderStream(512, <<Mapping(U64(4096), U64(16), U64(0))>>, U64(4096))
        EXCEPT !.images_1C0 = OneImage, !.subcaches_188 = OneSub]
SubStream == HeaderStream(512, <<Mapping(U64(8192), U64(8), U64(0))>>, U64(8192))

StreamsOf(fs) ==
    [p \in {q \in Paths : fs[q].exists} |-> IF p = MainPath THEN MainStream ELSE SubStream]

Inst(member, vm, inst) == [kind |-> "inst", member |-> member, target |-> U64(vm), inst |-> inst]
Zeroes(vm) == [kind |-> "zeroes", member |-> 0, target |-> U64(vm), inst |-> NOP_INST]

RecipeBases ==
    {<<Inst(1, 4100, NOP_INST)>>,
     <<Inst(1, 4098, RET_INST), Inst(1, 4100, NOP_INST)>>,
     <<Inst(1, 4096, MOVZ_INST), Zeroes(8192)>>,
     <<Inst(1, 4096, NOP_INST), Inst(1, 12288, RET_INST)>>,
     <<Inst(1, 4100, NOP_INST), Inst(1, 4100, RET_INST)>>}
RecipeTraces == {<<Inst(1, 4104, RET_INST)>>, <<Inst(1, 4110, RET_INST)>>}
Recipes == {[base |-> b, trace |-> t] : b \in RecipeBases, t \in RecipeTraces}

\* PatcherCLI: --revert and --dry-run are mutually exclusive.
Clis ==
    {c \in [revert_only : BOOLEAN, dry_run : BOOLEAN, unredact_logs : BOOLEAN] :
        ~(c.revert_only /\ c.dry_run)}

\* The writes run() builds: every recipe, then LibSystemTracePatches when
\* --unredact-logs is given.
Staged == recipe.base \o (IF cli.unredact_logs THEN recipe.trace ELSE <<>>)

\* Mutant of RevertTargets: only the Main member is reverted.
RevertTargetsMainOnly(cs) == <<cs[1].path>>

\* for (const auto &cache : analyser.caches) Patcher::revert(cache.first)
RevertTargets(cs) == [i \in 1..Len(cs) |-> cs[i].path]

InitRun ==
    /\ files \in {[p \in Paths |-> IF p = MainPath THEN File(m) ELSE s] :
                    m \in MainContents, s \in {File(c) : c \in SubContents} \cup {NoFile}}
    /\ sidecar = [p \in Paths |-> NoFile]
    /\ write_queue = EmptyMap
    /\ printed = EmptyMap
    /\ last = FirstOp
    /\ precommit = files
    /\ nwrites = 0
    /\ pc = "start"
    /\ cli \in Clis
    /\ reverted = <<>>
    /\ recipe \in Recipes
    /\ history = <<>>
    /\ runs = 1
    /\ AnalyserIdle

\* const CacheAnalyser analyser(cli.cache_path);
StartRun ==
    /\ pc = "start"
    /\ LET an == CacheAnalyser(MainPath, StreamsOf(files)) IN
       /\ caches' = an.caches
       /\ symbols_cache' = an.symbols_cache
       /\ pc' = IF an.ok THEN "revert" ELSE "failed"
       /\ last' = Op("construct", "", 0, <<>>, an.ok)
    /\ reverted' = <<>>
    /\ UNCHANGED <<files, sidecar, write_queue, printed, precommit, nwrites>>
    /\ UNCHANGED <<cli, recipe, history, runs, ptr_file, res>>

\* One iteration of the revert loop.
RevertStep ==
    /\ pc = "revert"
    /\ Len(reverted) < Len(RevertTargets(caches))
    /\ LET p == RevertTargets(caches)[Len(reverted) + 1]
           r == RevertOf(p, files, sidecar)
       IN  /\ files' = r.files
           /\ sidecar' = r.sidecar
           /\ reverted' = IF r.ok THEN Append(reverted, p) ELSE reverted
           /\ pc' = IF r.ok THEN "revert" ELSE "failed"
           /\ last' = Op("revert", p, 0, <<>>, r.ok)
    /\ UNCHANGED <<write_queue, printed, precommit, nwrites>>
    /\ UNCHANGED <<cli, recipe, history, runs, analyserVars>>

\* The loop is over: return when --revert, else construct the Patcher and
\* the Assembler.
RevertsDone ==
    /\ pc = "revert"
    /\ Len(reverted) = Len(RevertTargets(caches))
    /\ pc' = IF cli.revert_only THEN "done" ELSE "build"
    /\ write_queue' = EmptyMap
    /\ nwrites' = 0
    /\ precommit' = files
    /\ last' = Op("reverted", "", 0, <<>>, TRUE)
    /\ UNCHANGED <<files, sidecar, printed>>
    /\ UNCHANGED <<cli, reverted, recipe, history, runs, analyserVars>>

\* Mutant of BuildStep: the instruction is written to the file at once
\* instead of being staged.
BuildStepEager ==
    /\ pc = "build"
    /\ nwrites < Len(Staged)
    /\ LET item == Staged[nwrites + 1]
           r == IF item.kind = "inst"
                THEN write_inst(write_queue, caches[item.member].path,
                                caches[item.member].header, item.target, item.inst)
                ELSE apply_zeroes(write_queue, caches, item.target)
           p == IF item.kind = "inst" THEN caches[item.member].path ELSE MainPath
       IN  /\ write_queue' = r.wq
           /\ files' = IF r.ok /\ item.kind = "inst"
                       THEN [files EXCEPT ![p] = File(PutBytes(files[p].data, r.off,
                                                               u32_to_bytes(item.inst)))]
                       ELSE files
           /\ pc' = IF r.ok THEN "build" ELSE "failed"
           /\ last' = Op("write", "", r.off, <<>>, r.ok)
    /\ nwrites' = nwrites + 1
    /\ UNCHANGED <<sidecar, printed, precommit>>
    /\ UNCHANGED <<cli, reverted, recipe, history, runs, analyserVars>>

\* One write of a patch recipe: Assembler::write_* or apply_zeroes.  A target
\* outside every mapping throws and ends the run.
BuildStep ==
    /\ pc = "build"
    /\ nwrites < Len(Staged)
    /\ LET item == Staged[nwrites + 1]
           r == IF item.kind = "inst"
                THEN write_inst(write_queue, caches[item.member].path,
                                caches[item.member].header, item.target, item.inst)
                ELSE apply_zeroes(write_queue, caches, item.target)
       IN  /\ write_queue' = r.wq
           /\ pc' = IF r.ok THEN "build" ELSE "failed"
           /\ last' = Op("write", "", r.off, <<>>, r.ok)
    /\ nwrites' = nwrites + 1
    /\ UNCHANGED <<files, sidecar, printed, precommit>>
    /\ UNCHANGED <<cli, reverted, recipe, history, runs, analyserVars>>

\* patcher.print_changes(); then commit unless --dry-run.
PrintStep ==
    /\ pc = "build"
    /\ nwrites = Len(Staged)
    /\ printed' = PrintChangesOf(write_queue)
    /\ pc' = IF cli.dry_run THEN "done" ELSE "commit"
    /\ last' = Op("print_changes", "", 0, <<>>, TRUE)
    /\ UNCHANGED <<files, sidecar, write_queue, precommit, nwrites>>
    /\ UNCHANGED <<cli, reverted, recipe, history, runs, analyserVars>>

\* patcher.flush();
CommitStep ==
    /\ pc = "commit"
    /\ \E order \in Orders(DOMAIN write_queue) :
        LET r == FlushAll(order, write_queue, files, sidecar) IN
        /\ files' = r.files
        /\ sidecar' = r.sidecar
        /\ pc' = IF r.ok THEN "done" ELSE "failed"
        /\ last' = Op("flush", "", 0, <<>>, r.ok)
        /\ history' = IF r.ok
                      THEN Append(history, [run |-> runs, staged |-> write_queue,
                                            files |-> r.files, sidecar |-> r.sidecar])
                      ELSE history
    /\ precommit' = files
    /\ UNCHANGED <<write_queue, printed, nwrites>>
    /\ UNCHANGED <<cli, reverted, recipe, runs, analyserVars>>

\* The process exits; the driver is started again on the same cache tree.
NextRun ==
    /\ pc \in {"done", "failed"}
    /\ runs < MaxRuns
    /\ runs' = runs + 1
    /\ pc' = "start"
    /\ cli' \in Clis
    /\ write_queue' = EmptyMap
    /\ printed' = EmptyMap
    /\ nwrites' = 0
    /\ reverted' = <<>>
    /\ last' = Op("exit", "", 0, <<>>, TRUE)
    /\ UNCHANGED <<files, sidecar, precommit, recipe, history, analyserVars>>

NextRunStep ==
    \/ StartRun
    \/ RevertStep
    \/ RevertsDone
    \/ BuildStep
    \/ PrintStep
    \/ CommitStep
    \/ NextRun

SpecRun == InitRun /\ [][NextRunStep]_vars

(***************************************************************************)
(* Properties of the Patcher, checked under Spec.                          *)
(***************************************************************************)
\* Every staged range of path p lies inside the file as it was before the flush.
InRange(p) ==
    \A off \in DOMAIN write_queue[p] :
        off + Len(write_queue[p][off]) <= Len(precommit[p].data)

\* C1: after a successful flush, revert(path) on a path with staged writes
\* that all lie inside the file leaves the file as it was before the flush
\* and removes the sidecar.
C1_RoundTrip ==
    (/\ last.op = "revert"
     /\ last.prev.op = "flush"
     /\ last.prev.ok
     /\ last.path \in DOMAIN write_queue
     /\ InRange(last.path))
    => (/\ files[last.path] = precommit[last.path]
        /\ ~sidecar[last.path].exists)

\* C2: right after write(path, off, bytes) the staged entry of (path, off),
\* which is what print_changes shows and flush writes, is `bytes`, also when
\* an earlier write had staged other bytes at that offset.
C2_LaterWriteReplaces ==
    last.op = "write" => write_queue[last.path][last.off] = last.bytes

\* Hexadecimal text of a value below 256.
HexText(n) ==
    IF n < 16 THEN <<HexDigits[n + 1]>>
    ELSE <<HexDigits[(n \div 16) + 1], HexDigits[(n % 16) + 1]>>

\* The byte found at file position off + j of path p when the entry staged at
\* off is reached: the byte of the staged entry with the greatest lower offset
\* that covers the position, and the byte before the flush if there is none.
DisplacedByte(p, off, j) ==
    LET m == write_queue[p]
        cover == {o \in DOMAIN m : o < off /\ off + j < o + Len(m[o])}
        top == CHOOSE o \in cover : \A o2 \in cover : o2 <= o
    IN  IF cover = {} THEN precommit[p].data[off + j + 1]
        ELSE m[top][off + j - top + 1]

\* `<off>:` then the displaced bytes, each preceded by one space, then a newline.
RECURSIVE SpaceBefore(_, _, _, _)
SpaceBefore(p, off, j, n) ==
    IF j >= n THEN <<>>
    ELSE <<" ">> \o HexText(DisplacedByte(p, off, j)) \o SpaceBefore(p, off, j + 1, n)

\* `<off>: ` then the displaced bytes, each followed by one space, then a newline.
RECURSIVE SpaceAfter(_, _, _, _)
SpaceAfter(p, off, j, n) ==
    IF j >= n THEN <<>>
    ELSE HexText(DisplacedByte(p, off, j)) \o <<" ">> \o SpaceAfter(p, off, j + 1, n)

RECURSIVE LinesOf(_, _, _)
LinesOf(p, S, trailing) ==
    IF S = {} THEN <<>>
    ELSE LET off == CHOOSE o \in S : \A o2 \in S : o <= o2
             n == Len(write_queue[p][off])
         IN  (IF trailing
              THEN HexText(off) \o <<":", " ">> \o SpaceAfter(p, off, 0, n) \o <<"\n">>
              ELSE HexText(off) \o <<":">> \o SpaceBefore(p, off, 0, n) \o <<"\n">>)
             \o LinesOf(p, S \ {off}, trailing)

C7_RevertWithoutSidecar ==
    [][\A p \in Paths :
         (last'.op = "revert" /\ last'.path = p /\ ~sidecar[p].exists)
         => (last'.ok /\ files' = files /\ sidecar' = sidecar)]_vars

\* revert called twice in a row on a missing file without a sidecar.
C7_Witness ==
    /\ last.op = "revert"
    /\ last.ok
    /\ last.prev.op = "revert"
    /\ ~files[last.path].exists
    /\ ~sidecar[last.path].exists

(***************************************************************************)
(* Properties of the driver, checked under SpecRun.                        *)
(***************************************************************************)
AllMembers == [i \in 1..Len(caches) |-> caches[i].path]

\* C3: whenever a recipe is being built, a write is staged, the changes are
\* printed or committed, and whenever a run ends normally (revert-only and
\* dry-run included), revert has been applied to Main and every Sub.
C3_RevertBeforePatch ==
    (\/ pc \in {"build", "commit", "done"}
     \/ write_queue # EmptyMap
     \/ last.op \in {"write", "print_changes", "flush"})
    => (/\ Len(caches) >= 2
        /\ reverted = AllMembers)

\* A normal run about to commit staged writes, after an earlier run committed.
C3_Witness ==
    /\ pc = "commit"
    /\ write_queue # EmptyMap
    /\ history # <<>>
    /\ Len(reverted) = 2

\* C4: a file or a sidecar changes only in a step of flush or revert; and a
\* run that ends in a dry-run or fails while building a recipe leaves the
\* files as the reverts left them, with no sidecar.
C4_CommitOnDemand ==
    /\ [][(files' # files \/ sidecar' # sidecar) => last'.op \in {"flush", "revert"}]_vars
    /\ []((pc \in {"done", "failed"} /\ last.op \in {"write", "print_changes"})
          => (files = precommit /\ \A p \in Paths : ~sidecar[p].exists))

\* A dry-run that ends with staged writes, after an earlier run committed.
C4_Witness ==
    /\ pc = "done"
    /\ cli.dry_run
    /\ write_queue # EmptyMap
    /\ history # <<>>
    /\ files = precommit
    /\ \A p \in Paths : ~sidecar[p].exists

\* C5: two consecutive runs that commit the same staged writes end with the
\* same file bytes and the same sidecar content.
C5_Idempotent ==
    \A i \in 1..(Len(history) - 1) :
        (history[i + 1].run = history[i].run + 1 /\ history[i + 1].staged = history[i].staged)
        => (/\ history[i + 1].files = history[i].files
            /\ history[i + 1].sidecar = history[i].sidecar)

(***************************************************************************)
(* Specification SpecAnalyser: an analyser constructed over a cache tree   *)
(* (Main, one Sub, an optional Symbols member) and queried for an address  *)
(* or a fixup word.  The queries are const methods: each behaviour         *)
(* constructs one analyser and makes one query.                            *)
(***************************************************************************)
Top(k) == BVSub(U64(0), U64(k))      \* 2^64 - k

MA == Mapping(U64(4096), U64(16), U64(0))      \* [0x1000, 0x1010) -> 0x00
MB == Mapping(U64(4112), U64(16), U64(64))     \* [0x1010, 0x1020) -> 0x40
MC == Mapping(U64(4104), U64(16), U64(128))    \* [0x1008, 0x1018) -> 0x80
MW == Mapping(Top(8), U64(16), U64(256))       \* base + size wraps to 8
MZ == Mapping(U64(8192), U64(0), U64(512))     \* empty range
MH == Mapping(U64(4096), U64(16), Top(4))      \* file_off + (vm - base) wraps
MS == Mapping(U64(12288), U64(16), U64(0))     \* [0x3000, 0x3010), Symbols only

MainRecords == {<<MA>>, <<MA, MB>>, <<MA, MC>>, <<MC, MA>>, <<MW>>, <<MZ, MB>>, <<MH>>}
SubRecords == {<<MB>>, <<MC>>, <<>>}
CacheBases == {FromLimbs(0, 1, 32768, 0), Top(4096)}

\* The vm addresses queried.
VmAddrs ==
    {U64(n) : n \in {0, 7, 8, 4095, 4096, 4100, 4104, 4111, 4112, 4119, 4120, 4127, 4128,
                     8192, 12288}}
    \cup {Top(8), Top(1)}

\* The fixup words of the stream read_ptr_at reads, least significant byte
\* first, at offsets 0, 8, 16, ...
FixupWords ==
    <<<<52, 18, 0, 0, 0, 0, 0, 0>>,          \* 0x0000000000001234 rebase
      <<52, 18, 0, 0, 31, 0, 0, 0>>,         \* 0x0000001F00001234 rebase, bit 36 set
      <<52, 18, 0, 0, 0, 0, 1, 128>>,        \* 0x8001000000001234 auth rebase
      <<52, 18, 0, 0, 0, 0, 0, 128>>,        \* 0x8000000000001234 bind
      <<52, 18, 0, 0, 0, 0, 1, 192>>,        \* 0xC001000000001234 auth bind
      <<52, 18, 0, 0, 5, 0, 0, 128>>,        \* 0x8000000500001234 auth rebase
      <<52, 18, 0, 0, 0, 0, 0, 64>>,         \* 0x4000000000001234 rebase, bit 62 set
      <<52, 18, 0, 0, 0, 0, 4, 128>>,        \* 0x8004000000001234 auth rebase, bit 50
      <<52, 18, 0, 0, 0, 0, 8, 128>>,        \* 0x8008000000001234 bind, bit 51
      <<255, 255, 255, 255, 15, 0, 0, 0>>>>   \* 0x0000000FFFFFFFFF rebase

RECURSIVE Flatten(_)
Flatten(ss) == IF ss = <<>> THEN <<>> ELSE Head(ss) \o Flatten(Tail(ss))

ImageBases == {U64(0), U64(4660), FromLimbs(0, 0, 1, 0), FromLimbs(0, 15, 65535, 65535)}
PtrOffsets == {0, 4, 8, 16, 24, 32, 40, 48, 56, 64, 72, 76}

InitAnalyser ==
    /\ files = [p \in Paths |-> NoFile]
    /\ sidecar = [p \in Paths |-> NoFile]
    /\ write_queue = EmptyMap
    /\ printed = EmptyMap
    /\ last = FirstOp
    /\ precommit = files
    /\ nwrites = 0
    /\ DriverIdle
    /\ \E mr \in MainRecords, sr \in SubRecords, cb \in CacheBases, uuid \in BOOLEAN :
         LET streams ==
                 (MainPath :> [HeaderStream(512, mr, cb)
                                  EXCEPT !.uuid = uuid, !.images_1C0 = OneImage,
                                         !.subcaches_188 = OneSub])
              @@ (SubPath :> HeaderStream(512, sr, U64(0)))
              @@ (SymbolsPath :> HeaderStream(512, <<MS>>, U64(0)))
             an == CacheAnalyser(MainPath, streams)
         IN  /\ caches = an.caches
             /\ symbols_cache = an.symbols_cache
    /\ ptr_file = Flatten(FixupWords)
    /\ res = NoRes

\* entry.second.vm_addr_to_file_off(vm_addr) on member i.
QueryVmAddr(i, vm_addr) ==
    /\ res = NoRes
    /\ i \in 1..Len(caches)
    /\ LET r == vm_addr_to_file_off(caches[i].header, vm_addr)
       IN  res' = [op |-> "vm_addr_to_file_off", member |-> i, vm |-> vm_addr,
                   ok |-> r.ok, off |-> r.off]
    /\ UNCHANGED <<patcherVars, driverVars, caches, symbols_cache, ptr_file>>

\* analyser.find_entry_from_vm_addr(vm_addr)
QueryFindEntry(vm_addr) ==
    /\ res = NoRes
    /\ LET r == find_entry_from_vm_addr(caches, vm_addr)
       IN  res' = [op |-> "find_entry_from_vm_addr", vm |-> vm_addr,
                   ok |-> r.ok, off |-> r.off, index |-> r.index]
    /\ UNCHANGED <<patcherVars, driverVars, caches, symbols_cache, ptr_file>>

\* analyser.read_ptr_at(cache_file, image_base, off)
QueryReadPtr(image_base, off) ==
    /\ res = NoRes
    /\ LET r == read_ptr_at(caches, ptr_file, image_base, off)
       IN  res' = [op |-> "read_ptr_at", image_base |-> image_base, off |-> off,
                   ok |-> r.ok, why |-> r.why, val |-> r.val]
    /\ UNCHANGED <<patcherVars, driverVars, caches, symbols_cache, ptr_file>>

NextAnalyser ==
    \/ \E i \in 1..2, vm \in VmAddrs : QueryVmAddr(i, vm)
    \/ \E vm \in VmAddrs : QueryFindEntry(vm)
    \/ \E b \in ImageBases, off \in PtrOffsets : QueryReadPtr(b, off)

SpecAnalyser == InitAnalyser /\ [][NextAnalyser]_vars

(***************************************************************************)
(* Properties of the analyser, checked under SpecAnalyser.                 *)
(***************************************************************************)
\* base <= vm < base + size, the sum taken in 64-bit unsigned arithmetic.
Contains(m, vm) == BVLe(m.base, vm) /\ BVLt(vm, BVAdd(m.base, m.size))

\* The mappings of member i that contain vm.
Containing(i, vm) ==
    {k \in 1..Len(caches[i].header.mappings) : Contains(caches[i].header.mappings[k], vm)}

FileOffIn(i, k, vm) ==
    LET m == caches[i].header.mappings[k]
    IN  BVAdd(m.file_off, BVSub(vm, m.base))

\* C8 as stated: when a mapping contains vm it is the only one and the result
\* is its file_off + (vm - base); when none does the call fails.
C8_AsStated ==
    res.op = "vm_addr_to_file_off" =>
        LET C == Containing(res.member, res.vm)
        IN  IF C = {} THEN ~res.ok
            ELSE /\ res.ok
                 /\ Cardinality(C) = 1
                 /\ \A k \in C : res.off = FileOffIn(res.member, k, res.vm)

\* C8 amended: when some mapping contains vm the result is
\* file_off + (vm - base) of the first mapping in header order that does
\* (others may contain vm as well); when none does the call fails.
C8_FirstMapping ==
    res.op = "vm_addr_to_file_off" =>
        LET C == Containing(res.member, res.vm)
        IN  IF C = {} THEN ~res.ok
            ELSE /\ res.ok
                 /\ \E k \in C : /\ \A k2 \in C : k <= k2
                                 /\ res.off = FileOffIn(res.member, k, res.vm)

\* An address inside two mappings of one header, resolved through the first.
C8_Witness ==
    /\ res.op = "vm_addr_to_file_off"
    /\ res.ok
    /\ Cardinality(Containing(res.member, res.vm)) = 2
    /\ res.off = FileOffIn(res.member, 1, res.vm)
    /\ res.off # FileOffIn(res.member, 2, res.vm)

\* The members whose header resolves vm.
Resolving(vm) ==
    {i \in 1..Len(caches) : Containing(i, vm) # {}}

\* C9: find_entry_from_vm_addr returns the first member of caches (Main, then
\* the Subs) whose header resolves vm, with the offset that header gives; it
\* fails when no member of caches resolves vm, and never returns the Symbols
\* member.
C9_FirstMember ==
    res.op = "find_entry_from_vm_addr" =>
        IF Resolving(res.vm) = {} THEN ~res.ok
        ELSE /\ res.ok
             /\ res.index \in Resolving(res.vm)
             /\ \A i \in Resolving(res.vm) : res.index <= i
             /\ \E k \in Containing(res.index, res.vm) :
                    /\ \A k2 \in Containing(res.index, res.vm) : k <= k2
                    /\ res.off = FileOffIn(res.index, k, res.vm)
             /\ caches[res.index].path \in {MainPath, SubPath}
             /\ caches[res.index].path # symbols_cache.path

\* An address both Main and the Sub resolve, with a Symbols member present:
\* Main is returned.
C9_Witness ==
    /\ res.op = "find_entry_from_vm_addr"
    /\ res.ok
    /\ Resolving(res.vm) = {1, 2}
    /\ res.index = 1
    /\ symbols_cache.present

\* The 16-bit limbs of the word at offset off of the stream, from its bytes.
WordLimb(off, k) == ptr_file[off + 2 * k + 1] + 256 * ptr_file[off + 2 * k + 2]

\* C10: with W the word read, bit 63 clear gives V = W[0..36); bit 63 set,
\* bit 62 clear and W[32..51) non-zero gives V = W[0..32); every other word
\* is rejected; the result is V when V > image_base and V + Main.cache_base
\* (modulo 2^64) otherwise.
C10_ReadPtr ==
    (res.op = "read_ptr_at" /\ res.off + 8 <= Len(ptr_file)) =>
        LET l0 == WordLimb(res.off, 0)
            l1 == WordLimb(res.off, 1)
            l2 == WordLimb(res.off, 2)
            l3 == WordLimb(res.off, 3)
            bit63 == l3 >= 32768
            bit62 == (l3 \div 16384) % 2 = 1
            mid_zero == l2 = 0 /\ l3 % 8 = 0
            Result(V) == IF BVLt(res.image_base, V) THEN V
                         ELSE BVAdd(V, caches[1].header.cache_base)
        IN  IF ~bit63 THEN res.ok /\ res.val = Result(<<l0, l1, l2 % 16, 0>>)
            ELSE IF ~bit62 /\ ~mid_zero THEN res.ok /\ res.val = Result(<<l0, l1, 0, 0>>)
            ELSE ~res.ok /\ res.why \in {"auth_bind", "bind"}

\* The authenticated rebase 0x8001000000001234 read with image_base = 0x1234:
\* the target equals image_base and is rebased on Main's cache_base.
C10_Witness ==
    /\ res.op = "read_ptr_at"
    /\ res.off = 16
    /\ res.image_base = U64(4660)
    /\ res.ok
    /\ res.val = BVAdd(U64(4660), caches[1].header.cache_base)

(***************************************************************************)
(* Image matchers (analyser.hpp).  Install paths and names are sequences   *)
(* of characters, so that substr works on positions as it does in the      *)
(* code.                                                                   *)
(***************************************************************************)
FRAMEWORK_EXT == <<".", "f", "r", "a", "m", "e", "w", "o", "r", "k", "/">>
VERSIONS_A == <<"V", "e", "r", "s", "i", "o", "n", "s", "/", "A", "/">>
PublicBase == <<"/", "S", "y", "s", "t", "e", "m", "/", "L", "i", "b", "r", "a", "r", "y", "/", "F", "r", "a", "m", "e", "w", "o", "r", "k", "s", "/">>
PrivateBase ==
    <<"/", "S", "y", "s", "t", "e", "m", "/", "L", "i", "b", "r", "a", "r", "y", "/", "P", "r", "i", "v", "a", "t", "e", "F", "r", "a", "m", "e", "w", "o", "r", "k", "s", "/">>

ImageMatch(path) == [kind |-> "Exact", name |-> path]
FrameworkMatch(name) == [kind |-> "Framework", name |-> name]
PrivateFrameworkMatch(name) == [kind |-> "PrivateFramework", name |-> name]

\* std::string_view::substr(pos, n): throws when pos > size, else the
\* characters [pos, min(pos + n, size)).
substr(str, pos, n) ==
    [ok |-> pos <= Len(str),
     s |-> IF pos <= Len(str)
           THEN SubSeq(str, pos + 1, IF pos + n <= Len(str) THEN pos + n ELSE Len(str))
           ELSE <<>>]

\* `str.substr(pos, n) == t` inside the try block: an out_of_range thrown by
\* any substr of the chain is caught and gives false, as a false comparison
\* does.
SubstrIs(str, pos, n, t) == substr(str, pos, n).ok /\ substr(str, pos, n).s = t

\* IFrameworkMatch::matches_with_base
matches_with_base(framework_name, base_dir, str) ==
    LET name_size == Len(framework_name)
        base_dir_size == Len(base_dir)
        name_off == base_dir_size + name_size
        name_framework_off == name_off + Len(FRAMEWORK_EXT)
        name_versions_a_off == name_framework_off + Len(VERSIONS_A)
    IN  /\ SubstrIs(str, 0, base_dir_size, base_dir)
        /\ SubstrIs(str, base_dir_size, name_size, framework_name)
        /\ SubstrIs(str, name_off, Len(FRAMEWORK_EXT), FRAMEWORK_EXT)
        /\ \/ SubstrIs(str, name_framework_off, name_size, framework_name)
           \/ /\ SubstrIs(str, name_framework_off, Len(VERSIONS_A), VERSIONS_A)
              /\ SubstrIs(str, name_versions_a_off, name_size, framework_name)

\* IImageMatch::matches of the three matchers.
matches(m, str) ==
    CASE m.kind = "Exact" -> m.name = str
      [] m.kind = "Framework" -> matches_with_base(m.name, PublicBase, str)
      [] m.kind = "PrivateFramework" -> matches_with_base(m.name, PrivateBase, str)

Foo == <<"F", "o", "o">>
LibAPath == <<"/", "l", "i", "b", "A">>
FooPath == PublicBase \o Foo \o FRAMEWORK_EXT \o Foo
FooVersionedPath == PublicBase \o Foo \o FRAMEWORK_EXT \o VERSIONS_A \o Foo

(***************************************************************************)
(* Specification SpecLoad: one header stream parsed in one of the three    *)
(* roles, one analyser constructed over a tree of which some files cannot  *)
(* be opened, or one install path put to a matcher.  Each behaviour makes  *)
(* one call.                                                               *)
(***************************************************************************)
\* Values of the offset field at 0x10, around the three thresholds.
MappingOffs == {384, 395, 396, 399, 400, 456, 457, 464}

OldImage == [base |-> U64(4096), path |-> "/old"]
NewImage == [base |-> U64(8192), path |-> "/new"]
ImageDirs18 == {Dir(768, 1, <<OldImage>>), Dir(768, 0, <<OldImage>>)}
ImageDirs1C0 == {Dir(832, 1, <<NewImage>>), Dir(832, 0, <<NewImage>>), Dir(0, 1, <<NewImage>>)}
SubDirs ==
    {NoDir,
     Dir(896, 1, <<[vm_off |-> U64(0), suffix |-> ".A"]>>),
     Dir(896, 2, <<[vm_off |-> U64(0), suffix |-> ".A"], [vm_off |-> U64(16), suffix |-> ".B"]>>)}
Types == {"Main", "Sub", "Symbols"}

ParseInputs ==
    {[HeaderStream(off, <<MA>>, U64(4096))
        EXCEPT !.uuid = u, !.images_18 = i18, !.images_1C0 = i1C0, !.subcaches_188 = sd] :
        off \in MappingOffs, u \in BOOLEAN, i18 \in ImageDirs18, i1C0 \in ImageDirs1C0,
        sd \in {d \in SubDirs : d.count # 1}}

\* The files a tree may hold besides Main, each with a header of its own.
TreePaths == {"P.1", "P.2", "P.A", "P.B", "P.symbols"}
TreeStream(p) ==
    IF p = "P.symbols"
    THEN [HeaderStream(512, <<MS>>, U64(12288))
            EXCEPT !.local_symbols_off = 1024,
                   !.local_info = [nlist_off |-> 32, strings_off |-> 64, entries_count |-> 1,
                                   entries |-> <<[dylib_offset |-> U64(16),
                                                  nlist_start_index |-> 0,
                                                  nlist_count |-> 1]>>]]
    ELSE HeaderStream(512, <<MB>>,
                      U64(CHOOSE k \in 1..4 : <<"P.1", "P.2", "P.A", "P.B">>[k] = p))

TreeMains ==
    {[HeaderStream(off, <<MA>>, U64(4096))
        EXCEPT !.uuid = u, !.images_18 = Dir(768, 1, <<OldImage>>),
               !.images_1C0 = Dir(832, 1, <<NewImage>>), !.subcaches_188 = sd] :
        off \in {384, 448, 512}, u \in BOOLEAN, sd \in SubDirs}

InitLoad ==
    /\ files = [p \in Paths |-> NoFile]
    /\ sidecar = [p \in Paths |-> NoFile]
    /\ write_queue = EmptyMap
    /\ printed = EmptyMap
    /\ last = FirstOp
    /\ precommit = files
    /\ nwrites = 0
    /\ DriverIdle
    /\ AnalyserIdle

\* DyldCacheHeader(stream, type)
ParseHeader(stream, type) ==
    /\ res = NoRes
    /\ res' = [op |-> "DyldCacheHeader", type |-> type, stream |-> stream,
               header |-> DyldCacheHeader(stream, type, U64(0))]
    /\ UNCHANGED <<patcherVars, driverVars, caches, symbols_cache, ptr_file>>

\* CacheAnalyser(MainPath) when the main file holds `main` and the files of
\* `openable` can be opened.
Construct(main, main_openable, openable) ==
    /\ res = NoRes
    /\ LET streams == [p \in openable \cup (IF main_openable THEN {MainPath} ELSE {}) |->
                          IF p = MainPath THEN main ELSE TreeStream(p)]
           an == CacheAnalyser(MainPath, streams)
       IN  /\ caches' = an.caches
           /\ symbols_cache' = an.symbols_cache
           /\ res' = [op |-> "CacheAnalyser", ok |-> an.ok, main |-> main,
                      openable |-> DOMAIN streams]
    /\ UNCHANGED <<patcherVars, driverVars, ptr_file>>

\* Install paths around the two forms of a framework's binary path.
MatchPaths ==
    UNION {{b \o Foo \o FRAMEWORK_EXT \o Foo,
            b \o Foo \o FRAMEWORK_EXT \o VERSIONS_A \o Foo,
            b \o Foo \o FRAMEWORK_EXT \o Foo \o <<"B", "a", "r">>,
            b \o Foo \o FRAMEWORK_EXT \o Foo \o <<"/">>,
            b \o Foo \o FRAMEWORK_EXT \o VERSIONS_A \o Foo \o <<"/", "x">>,
            b \o Foo \o FRAMEWORK_EXT \o VERSIONS_A,
            b \o Foo \o FRAMEWORK_EXT \o <<"F", "o">>,
            b \o Foo \o FRAMEWORK_EXT,
            b \o Foo \o <<".", "f", "r", "a", "m", "e", "w", "o", "r", "k">> \o Foo,
            b \o Foo,
            b \o <<"F", "o">> \o FRAMEWORK_EXT \o <<"F", "o">>,
            b,
            <<"X">> \o b \o Foo \o FRAMEWORK_EXT \o Foo} : b \in {PublicBase, PrivateBase}}
    \cup {<<>>, LibAPath}
MatchMatchers ==
    {FrameworkMatch(Foo), PrivateFrameworkMatch(Foo), FrameworkMatch(<<"F", "o">>), ImageMatch(FooPath)}

\* image_match.matches(path)
Matches(m, path) ==
    /\ res = NoRes
    /\ res' = [op |-> "matches", matcher |-> m, path |-> path, result |-> matches(m, path)]
    /\ UNCHANGED <<patcherVars, driverVars, caches, symbols_cache, ptr_file>>

\* A file stream (std::ifstream): its bytes, the read position and whether
\* the stream has failed (failbit or badbit set).
IStream(data, pos, failed) == [data |-> data, pos |-> pos, failed |-> failed]
StreamOk(st, value) == [ok |-> TRUE, why |-> "", st |-> st, value |-> value]
StreamErr(why, st) == [ok |-> FALSE, why |-> why, st |-> st, value |-> <<>>]

\* seek_stream: std::runtime_error on a stream that has failed already,
\* std::out_of_range when seekg fails.  A file buffer repositions to every
\* non-negative offset, the ones past the end of the file included; only a
\* negative position makes seekg fail.
seek_stream(st, npos, dir) ==
    IF st.failed THEN StreamErr("runtime_error", st)
    ELSE LET target == IF dir = "beg" THEN npos ELSE st.pos + npos
         IN  IF target < 0 THEN StreamErr("out_of_range", [st EXCEPT !.failed = TRUE])
             ELSE StreamOk([st EXCEPT !.pos = target], <<>>)

\* read_stream: istream::read extracts gcount bytes and sets eofbit and
\* failbit when fewer than size are left; the test of the stream precedes
\* the test of gcount.
read_stream(st, size) ==
    IF st.failed THEN StreamErr("runtime_error", st)
    ELSE LET avail == IF st.pos >= Len(st.data) THEN 0 ELSE Len(st.data) - st.pos
             gcount == IF size <= avail THEN size ELSE avail
             ret == [st EXCEPT !.pos = st.pos + gcount, !.failed = gcount < size]
         IN  IF ret.failed THEN StreamErr("runtime_error", ret)
             ELSE IF gcount # size THEN StreamErr("out_of_range", ret)
             ELSE StreamOk(ret, SubSeq(st.data, st.pos + 1, st.pos + size))

\* read_u8, read_u16_le, read_u32_le, read_u64_le on a stream: size bytes
\* through read_stream, assembled least significant first.
read_int_le(st, size) ==
    LET r == read_stream(st, size)
    IN  IF ~r.ok THEN r
        ELSE StreamOk(r.st, IF size = 1 THEN r.value[1]
                            ELSE IF size = 2 THEN r.value[1] + 256 * r.value[2]
                            ELSE AssembleLE(r.value, 0, size - 1, 8 * size))
read_u8(st) == read_int_le(st, 1)
read_u16_le(st) == read_int_le(st, 2)

\* read_cstr on a stream, str being the bytes collected so far: the loop
\* is not entered on a failed stream.
RECURSIVE stream_read_cstr(_, _)
stream_read_cstr(st, str) ==
    IF st.failed THEN StreamOk(st, str)
    ELSE LET r == read_stream(st, 1)
         IN  IF ~r.ok THEN r
             ELSE IF r.value[1] = 0 THEN StreamOk(r.st, str)
             ELSE stream_read_cstr(r.st, Append(str, r.value[1]))

\* The loop of read_cstrn from iteration i on.
RECURSIVE CstrnLoop(_, _, _, _)
CstrnLoop(st, n, i, str) ==
    IF st.failed \/ i >= n THEN StreamOk(st, str)
    ELSE LET r == read_stream(st, 1)
         IN  IF ~r.ok THEN r
             ELSE IF r.value[1] = 0
                  THEN LET back == seek_stream(r.st, -1, "cur")
                       IN  IF back.ok THEN StreamOk(back.st, str) ELSE back
                  ELSE CstrnLoop(r.st, n, i + 1, Append(str, r.value[1]))

\* read_cstrn
read_cstrn(st, n) ==
    LET l == CstrnLoop(st, n, 0, <<>>)
    IN  IF ~l.ok THEN l
        ELSE LET skip == seek_stream(l.st, n - Len(l.value), "cur")
             IN  IF skip.ok THEN StreamOk(skip.st, l.value) ELSE skip

\* One call of the binary reader on a stream standing at pos.
ReaderCall(call, n, st) ==
    CASE call = "read_u8" -> read_u8(st)
      [] call = "read_u16_le" -> read_u16_le(st)
      [] call = "read_u32_le" -> read_int_le(st, 4)
      [] call = "read_u64_le" -> read_int_le(st, 8)
      [] call = "read_cstr" -> stream_read_cstr(st, <<>>)
      [] call = "read_cstrn" -> read_cstrn(st, n)
      [] call = "seek_beg" -> seek_stream(st, n, "beg")
      [] call = "seek_cur" -> seek_stream(st, n, "cur")

Reader(call, n, data, pos, failed) ==
    /\ res = NoRes
    /\ res' = [op |-> "reader", call |-> call, n |-> n,
               before |-> IStream(data, pos, failed),
               r |-> ReaderCall(call, n, IStream(data, pos, failed))]
    /\ UNCHANGED <<patcherVars, driverVars, caches, symbols_cache, ptr_file>>

\* Streams: empty, "AB" NUL "C", nine bytes without a NUL.
ReaderData == {<<>>, <<65, 66, 0, 67>>, <<65, 66, 67, 68, 69, 70, 71, 72, 73>>}
ReaderCalls ==
    ({"read_u8", "read_u16_le", "read_u32_le", "read_u64_le", "read_cstr"} \X {0})
        \cup ({"read_cstrn"} \X {0, 2, 4})
        \cup ({"seek_beg", "seek_cur"} \X {-1, 0, 4, 9, 10, 12})

\* Mutant of MappingRecord: sixteen bytes are skipped after the three fields.
MappingRecordPad16(st) ==
    LET b == read_int_le(st, 8) IN
    IF ~b.ok THEN b ELSE
    LET z == read_int_le(b.st, 8) IN
    IF ~z.ok THEN z ELSE
    LET f == read_int_le(z.st, 8) IN
    IF ~f.ok THEN f ELSE
    LET skip == seek_stream(f.st, 16, "cur") IN
    IF ~skip.ok THEN skip
    ELSE StreamOk(skip.st, Mapping(b.value, z.value, f.value))

\* DyldCacheHeader::Mapping(stream): base, size and file_off in declaration
\* order, then seek_stream(stream, 8, std::ios::cur).
MappingRecord(st) ==
    LET b == read_int_le(st, 8) IN
    IF ~b.ok THEN b ELSE
    LET z == read_int_le(b.st, 8) IN
    IF ~z.ok THEN z ELSE
    LET f == read_int_le(z.st, 8) IN
    IF ~f.ok THEN f ELSE
    LET skip == seek_stream(f.st, 8, "cur") IN
    IF ~skip.ok THEN skip
    ELSE StreamOk(skip.st, Mapping(b.value, z.value, f.value))

\* for (i = 0; i < mapping_count; ++i) mappings.emplace_back(stream)
RECURSIVE MappingLoop(_, _, _, _)
MappingLoop(st, mapping_count, i, mappings) ==
    IF i >= mapping_count THEN StreamOk(st, mappings)
    ELSE LET m == MappingRecord(st)
         IN  IF ~m.ok THEN m
             ELSE MappingLoop(m.st, mapping_count, i + 1, Append(mappings, m.value))

\* The constructor of DyldCacheHeader up to the end of the mapping loop: the
\* two u32 at 0x10, then the records when the role is not Symbols and both
\* are non-zero.
MappingTable(st, type) ==
    LET magic == seek_stream(st, 16, "beg") IN
    IF ~magic.ok THEN magic ELSE
    LET mapping_off == read_int_le(magic.st, 4) IN
    IF ~mapping_off.ok THEN mapping_off ELSE
    LET mapping_count == read_int_le(mapping_off.st, 4) IN
    IF ~mapping_count.ok THEN mapping_count
    ELSE IF type # "Symbols" /\ ToNat(mapping_off.value) # 0 /\ ToNat(mapping_count.value) # 0
    THEN LET at == seek_stream(mapping_count.st, ToNat(mapping_off.value), "beg")
         IN  IF ~at.ok THEN at
             ELSE MappingLoop(at.st, ToNat(mapping_count.value), 0, <<>>)
    ELSE StreamOk(mapping_count.st, <<>>)

\* DyldCacheHeader(stream, type) on a stream of bytes, as far as the mappings.
ParseMappings(data, type) ==
    /\ res = NoRes
    /\ res' = [op |-> "mappings", type |-> type, data |-> data,
               r |-> MappingTable(IStream(data, 0, FALSE), type)]
    /\ UNCHANGED <<patcherVars, driverVars, caches, symbols_cache, ptr_file>>

\* A stream of len bytes with mapping_off and mapping_count at 0x10 and a
\* different value in every other byte.
TableBytes(mapping_off, mapping_count, len) ==
    [k \in 1..len |-> IF k = 17 THEN mapping_off
                      ELSE IF k = 21 THEN mapping_count
                      ELSE IF k \in 18..24 THEN 0
                      ELSE (k * 7 + 3) % 256]
TableOffs == {0, 24, 40}
TableCounts == {0, 1, 2, 3}
\* 136 = 40 + 3 * 32; the shorter streams end within a record or a field.
TableLens == {20, 64, 100, 136, 176}

NextLoad ==
    \/ \E stream \in ParseInputs, type \in Types : ParseHeader(stream, type)
    \/ \E m \in MatchMatchers, path \in MatchPaths : Matches(m, path)
    \/ \E c \in ReaderCalls, data \in ReaderData, pos \in 0..10, failed \in BOOLEAN :
           Reader(c[1], c[2], data, pos, failed)
    \/ \E off \in TableOffs, count \in TableCounts, len \in TableLens, type \in Types :
           ParseMappings(TableBytes(off, count, len), type)
    \/ \E main \in TreeMains, mo \in BOOLEAN, openable \in SUBSET TreePaths :
           Construct(main, mo, openable)

SpecLoad == InitLoad /\ [][NextLoad]_vars

(***************************************************************************)
(* Properties of the header parser and of the analyser's construction,     *)
(* checked under SpecLoad.                                                 *)
(***************************************************************************)
\* The records a directory yields: `count` records when offset and count are
\* both non-zero.
DirRecords(d) == IF d.off # 0 /\ d.count # 0 THEN SubSeq(d.records, 1, d.count) ELSE <<>>

\* C11: for a Main header that parses, the offset field decides alone: the
\* UUID is the one at 0x190 iff off >= 0x190 and zero otherwise; images and
\* subcaches come from 0x1C0 and 0x188 iff off >= 0x18C, else images from
\* 0x18 and no subcaches; suffixes are inline iff off > 0x1C8, else "." and
\* the 1-based index.
C11_VersionGates ==
    (res.op = "DyldCacheHeader" /\ res.type = "Main" /\ res.header.ok) =>
        LET st == res.stream
            off == st.mapping_off
            h == res.header
            subs == DirRecords(st.subcaches_188)
        IN  /\ h.symbol_file_uuid = (off >= 400 /\ st.uuid)
            /\ h.images = IF off >= 396 THEN DirRecords(st.images_1C0)
                          ELSE DirRecords(st.images_18)
            /\ Len(h.subcaches) = IF off >= 396 THEN Len(subs) ELSE 0
            /\ \A i \in 1..Len(h.subcaches) :
                   h.subcaches[i].suffix = IF off > 456 THEN subs[i].suffix
                                           ELSE <<".1", ".2">>[i]

\* off = 0x1D0 with a UUID, two subcaches and images in both directories:
\* UUID read, inline suffixes, images from 0x1C0.
C11_Witness ==
    /\ res.op = "DyldCacheHeader"
    /\ res.type = "Main"
    /\ res.stream.mapping_off = 464
    /\ res.stream.images_18.count = 1
    /\ res.header.ok
    /\ res.header.symbol_file_uuid
    /\ res.header.images = <<NewImage>>
    /\ Len(res.header.subcaches) = 2
    /\ res.header.subcaches[2].suffix = ".B"

\* The image directory the layout selects.
ImageDirOf(st) == IF st.mapping_off >= 396 THEN st.images_1C0 ELSE st.images_18

\* C12 as stated: a Main header whose image count is zero fails to parse
\* with the format error in either layout, and a Main header that parses has
\* at least one image.
C12_AsStated ==
    (res.op = "DyldCacheHeader" /\ res.type = "Main") =>
        /\ ImageDirOf(res.stream).count = 0 => (~res.header.ok /\ res.header.why = "format")
        /\ res.header.ok => Len(res.header.images) >= 1

\* C12 amended: in the split layout (off >= 0x18C) a zero image count fails
\* with the format error and a header that parses has a non-zero image
\* count; in the non-split layout a zero image count parses, with no image.
C12_SplitOnly ==
    (res.op = "DyldCacheHeader" /\ res.type = "Main") =>
        LET d == ImageDirOf(res.stream)
        IN  IF res.stream.mapping_off >= 396
            THEN /\ d.count = 0 => (~res.header.ok /\ res.header.why = "format")
                 /\ res.header.ok => d.count # 0
            ELSE d.count = 0 => (res.header.ok /\ res.header.images = <<>>)

\* A non-split Main header with image count zero, parsed successfully.
C12_Witness ==
    /\ res.op = "DyldCacheHeader"
    /\ res.type = "Main"
    /\ res.stream.mapping_off = 384
    /\ res.stream.images_18.count = 0
    /\ res.header.ok
    /\ res.header.images = <<>>

\* The subcache suffixes a main stream names, from its fields.
SuffixesOf(main) ==
    LET subs == DirRecords(main.subcaches_188)
    IN  IF main.mapping_off < 396 THEN <<>>
        ELSE [i \in 1..Len(subs) |-> IF main.mapping_off > 456 THEN subs[i].suffix
                                     ELSE <<".1", ".2">>[i]]

\* C13: construction succeeds iff Main, every subcache file and, when Main
\* carries a non-zero symbol-file UUID, the symbols file can be opened; the
\* members are then Main followed by one Sub per subcache entry in header
\* order, each parsed from its own file, and the Symbols member exists iff
\* the UUID is non-zero, is P.symbols and keys its local symbols on Main's
\* cache_base; a failed construction produces no analyser.
C13_Construction ==
    res.op = "CacheAnalyser" =>
        LET sfx == SuffixesOf(res.main)
            has_uuid == res.main.mapping_off >= 400 /\ res.main.uuid
            needed == {MainPath} \cup {MainPath \o sfx[i] : i \in 1..Len(sfx)}
                      \cup (IF has_uuid THEN {SymbolsPath} ELSE {})
        IN  /\ res.ok = (needed \subseteq res.openable)
            /\ ~res.ok => (caches = <<>> /\ ~symbols_cache.present)
            /\ res.ok =>
                 /\ Len(caches) = 1 + Len(sfx)
                 /\ caches[1].path = MainPath
                 /\ caches[1].header.cache_base = res.main.cache_base
                 /\ \A i \in 1..Len(sfx) :
                        /\ caches[i + 1].path = MainPath \o sfx[i]
                        /\ caches[i + 1].header.cache_base
                             = TreeStream(MainPath \o sfx[i]).cache_base
                        /\ caches[i + 1].header.mappings = <<MB>>
                        /\ caches[i + 1].header.images = <<>>
                 /\ symbols_cache.present = has_uuid
                 /\ has_uuid =>
                        /\ symbols_cache.path = SymbolsPath
                        /\ symbols_cache.header.mappings = <<>>
                        /\ DOMAIN symbols_cache.header.local_symbols.entries
                             = {BVAdd(res.main.cache_base, U64(16))}

\* Main with two legacy subcaches and a UUID: three members and a Symbols
\* member, with files of other names present as well.
C13_Witness ==
    /\ res.op = "CacheAnalyser"
    /\ res.ok
    /\ res.main.mapping_off = 448
    /\ Len(caches) = 3
    /\ caches[2].path = "P.1"
    /\ caches[3].path = "P.2"
    /\ symbols_cache.present
    /\ "P.A" \in res.openable

\* The two paths framework matcher m is specified to accept.
FrameworkForms(m) ==
    LET b == IF m.kind = "Framework" THEN PublicBase ELSE PrivateBase
    IN  {b \o m.name \o FRAMEWORK_EXT \o m.name,
         b \o m.name \o FRAMEWORK_EXT \o VERSIONS_A \o m.name}

\* C17: a framework matcher accepts a path if and only if the path equals
\* base_dir N ".framework/" N or base_dir N ".framework/Versions/A/" N; a
\* longer path that starts with one of them is not accepted.
C17_ExactForms ==
    (res.op = "matches" /\ res.matcher.kind # "Exact") =>
        (res.result = (res.path \in FrameworkForms(res.matcher)))

\* What the matchers do instead: they accept every path that starts with
\* one of the two forms, and only those.
C17_PrefixForms ==
    (res.op = "matches" /\ res.matcher.kind # "Exact") =>
        (res.result = \E f \in FrameworkForms(res.matcher) :
                          Len(f) <= Len(res.path) /\ SubSeq(res.path, 1, Len(f)) = f)

(***************************************************************************)
(* find_image and resolve_sym (analyser.hpp, nlist.hpp, macho.hpp).  A     *)
(* member file is [machs, nlists, chars]: the Mach headers, the 16-byte    *)
(* nlist records and the string-table characters found at given file       *)
(* offsets; "" is the NUL character.                                       *)
(***************************************************************************)
NList(strx, raw, value) == [strx |-> strx, raw |-> raw, value |-> value]
Section == 7

\* Mutant of nlist_type: the three bits of the stab field.
nlist_typeStab(raw) == (raw \div 32) % 8

\* type_flags.bits.type: the three bits above the lowest bit of the type byte
\* (bit-fields are allocated from the least significant bit on the targets
\* the program is built for).
nlist_type(raw) == (raw \div 2) % 8

\* read_cstr: the characters from off up to the next NUL; running off the
\* end of the data is std::out_of_range.
RECURSIVE read_cstr(_, _)
read_cstr(chars, off) ==
    IF off \notin DOMAIN chars THEN [ok |-> FALSE, s |-> ""]
    ELSE IF chars[off] = "" THEN [ok |-> TRUE, s |-> ""]
    ELSE LET rest == read_cstr(chars, off + 1)
         IN  [ok |-> rest.ok, s |-> chars[off] \o rest.s]

\* Mutant of ReadSymbols: operator[] assignment, the last entry of a name wins.
RECURSIVE ReadSymbolsLastWins(_, _, _, _, _)
ReadSymbolsLastWins(file, nlist_off, str_off, count, symbols) ==
    IF count = 0 THEN [ok |-> TRUE, symbols |-> symbols]
    ELSE IF nlist_off \notin DOMAIN file.nlists THEN [ok |-> FALSE, symbols |-> symbols]
    ELSE LET e == file.nlists[nlist_off]
             name == read_cstr(file.chars, str_off + e.strx)
             Rest(m) == ReadSymbolsLastWins(file, nlist_off + 16, str_off, count - 1, m)
         IN  IF e.strx = 0 THEN Rest(symbols)
             ELSE IF nlist_type(e.raw) # Section THEN Rest(symbols)
             ELSE IF ~name.ok THEN [ok |-> FALSE, symbols |-> symbols]
             ELSE IF name.s = "" \/ name.s = "<redacted>" THEN Rest(symbols)
             ELSE Rest((name.s :> e.value) @@ symbols)

\* The symbol loops of find_image (symtab command, then local symbols):
\* `count` nlist records from nlist_off on, names read at str_off + strx.
RECURSIVE ReadSymbols(_, _, _, _, _)
ReadSymbols(file, nlist_off, str_off, count, symbols) ==
    IF count = 0 THEN [ok |-> TRUE, symbols |-> symbols]
    ELSE IF nlist_off \notin DOMAIN file.nlists THEN [ok |-> FALSE, symbols |-> symbols]
    ELSE LET e == file.nlists[nlist_off]
             name == read_cstr(file.chars, str_off + e.strx)
             Rest(m) == ReadSymbols(file, nlist_off + 16, str_off, count - 1, m)
         IN  IF e.strx = 0 THEN Rest(symbols)
             ELSE IF nlist_type(e.raw) # Section THEN Rest(symbols)
             ELSE IF ~name.ok THEN [ok |-> FALSE, symbols |-> symbols]
             ELSE IF name.s = "" \/ name.s = "<redacted>" THEN Rest(symbols)
             ELSE Rest(IF name.s \in DOMAIN symbols THEN symbols
                       ELSE symbols @@ (name.s :> e.value))

\* std::find_if over the images of the main header: the index of the first
\* image whose path matches, 0 when none does.
FirstMatch(images, m) ==
    IF \E i \in 1..Len(images) : matches(m, images[i].path)
    THEN CHOOSE i \in 1..Len(images) :
             /\ matches(m, images[i].path)
             /\ \A j \in 1..(i - 1) : ~matches(m, images[j].path)
    ELSE 0

NoImage(why) == [ok |-> FALSE, why |-> why, path |-> "", file_off |-> 0, vm_addr |-> U64(0),
                 symbols |-> EmptyMap]

\* CacheAnalyser::find_image without the Objective-C class walk.
find_image(cs, sym_cache, fs, m) ==
    LET images == cs[1].header.images
        i == FirstMatch(images, m)
        base == images[i].base
        loc == find_entry_from_vm_addr(cs, base)
        path == cs[loc.index].path
        image_off == ToNat(loc.off)
        mach == fs[path].machs[image_off]
        linkedit == CHOOSE seg \in mach.segments : seg.name = "__LINKEDIT"
        linkedit_base == BVSub(linkedit.vm_addr, linkedit.file_off)
        sym_loc == find_entry_from_vm_addr(cs, BVAdd(linkedit_base, mach.symtab.sym_off))
        str_loc == find_entry_from_vm_addr(cs, BVAdd(linkedit_base, mach.symtab.str_off))
        sym_file == fs[cs[sym_loc.index].path]
        str_file == fs[cs[str_loc.index].path]
        from_symtab ==
            IF ~mach.symtab.present THEN [ok |-> TRUE, symbols |-> EmptyMap]
            ELSE IF ~sym_loc.ok \/ ~str_loc.ok THEN [ok |-> FALSE, symbols |-> EmptyMap]
            ELSE ReadSymbols([nlists |-> sym_file.nlists, chars |-> str_file.chars],
                             ToNat(sym_loc.off), ToNat(str_loc.off),
                             mach.symtab.sym_count, EmptyMap)
        symbols_cache_ == IF sym_cache.present THEN sym_cache ELSE cs[1]
        local_symbols == symbols_cache_.header.local_symbols
        symbols_off == symbols_cache_.header.local_symbols_off
        entry == local_symbols.entries[base]
        from_local ==
            IF base \notin DOMAIN local_symbols.entries THEN from_symtab
            ELSE ReadSymbols(fs[symbols_cache_.path],
                             symbols_off + local_symbols.nlist_off + entry.nlist_start_index * 16,
                             symbols_off + local_symbols.strings_off,
                             entry.nlist_count, from_symtab.symbols)
    IN  IF i = 0 THEN NoImage("not_found")
        ELSE IF ~loc.ok THEN NoImage("out_of_range")
        ELSE IF image_off \notin DOMAIN fs[path].machs THEN NoImage("read")
        ELSE IF ~\E seg \in mach.segments : seg.name = "__LINKEDIT" THEN NoImage("out_of_range")
        ELSE IF ~from_symtab.ok \/ ~from_local.ok THEN NoImage("read")
        ELSE [ok |-> TRUE, why |-> "", path |-> path, file_off |-> image_off, vm_addr |-> base,
              symbols |-> from_local.symbols]

\* Mutant of resolve_sym: the last variant present decides.
RECURSIVE resolve_symLast(_, _, _)
resolve_symLast(symbols, variants, i) ==
    IF i > Len(variants)
    THEN [ok |-> FALSE, value |-> U64(0), missing |-> variants[1], symbols |-> symbols]
    ELSE LET rest == resolve_symLast(symbols, variants, i + 1)
         IN  IF rest.ok THEN rest
             ELSE IF variants[i] \in DOMAIN symbols
             THEN [ok |-> TRUE, value |-> symbols[variants[i]], missing |-> "", symbols |-> symbols]
             ELSE rest

\* Image::resolve_sym from variant i on: the value of the first variant
\* found; none found is std::out_of_range naming the first variant.
\* `symbols` is the map as the call leaves it.
RECURSIVE resolve_sym(_, _, _)
resolve_sym(symbols, variants, i) ==
    IF i > Len(variants)
    THEN [ok |-> FALSE, value |-> U64(0), missing |-> variants[1], symbols |-> symbols]
    ELSE IF variants[i] \in DOMAIN symbols
    THEN [ok |-> TRUE, value |-> symbols[variants[i]], missing |-> "", symbols |-> symbols]
    ELSE resolve_sym(symbols, variants, i + 1)

(***************************************************************************)
(* Specification SpecImage: an analyser over a main cache that holds three *)
(* images, with the local symbols in the main file or in the symbols file; *)
(* one find_image, then one resolve_sym on the image found.                *)
(***************************************************************************)

\* The string table: "_a" at 1, "a" at 2, "" at 3, "_b" at 4, "<redacted>"
\* at 7.
StringTable ==
    <<"", "_", "a", "", "_", "b", "", "<", "r", "e", "d", "a", "c", "t", "e", "d", ">", "">>

\* nlist records of the symtab command and of the local-symbols table.
SymtabRecords ==
    {NList(1, 14, U64(4096)), NList(1, 15, U64(4368)), NList(4, 14, U64(8192)),
     NList(0, 14, U64(12288)), NList(2, 112, U64(16384)), NList(7, 14, U64(20480))}
LocalRecords ==
    {NList(1, 14, U64(8192)), NList(4, 30, U64(8208)), NList(2, 14, U64(12288)),
     NList(3, 14, U64(16384)), NList(4, 12, U64(20480)), NList(0, 15, U64(24576))}
Lists(S) == {<<>>} \cup {<<x>> : x \in S} \cup {<<x, y>> : x \in S, y \in S}

TableAt(at, records) ==
    [o \in {at + 16 * (k - 1) : k \in 1..Len(records)} |-> records[(o - at) \div 16 + 1]]
CharsAt(at, chars) == [o \in {at + k - 1 : k \in 1..Len(chars)} |-> chars[o - at + 1]]

ImageMapping == Mapping(U64(4096), U64(4096), U64(0))
Linkedit == [name |-> "__LINKEDIT", vm_addr |-> U64(4096 + 1024), file_off |-> U64(1024)]
FooMach(symtab) ==
    [segments |-> {Linkedit, [name |-> "__TEXT", vm_addr |-> U64(4352), file_off |-> U64(256)]},
     symtab |-> [present |-> TRUE, sym_off |-> U64(1024), str_off |-> U64(1280),
                 sym_count |-> Len(symtab)]]
LibAMach ==
    [segments |-> {Linkedit},
     symtab |-> [present |-> FALSE, sym_off |-> U64(0), str_off |-> U64(0), sym_count |-> 0]]
ThreeImages ==
    Dir(768, 3, <<[base |-> U64(4608), path |-> LibAPath],
                  [base |-> U64(4352), path |-> FooPath],
                  [base |-> U64(4608), path |-> FooVersionedPath]>>)
LocalInfo(local) ==
    [nlist_off |-> 32, strings_off |-> 128, entries_count |-> 1,
     entries |-> <<[dylib_offset |-> U64(256), nlist_start_index |-> 1,
                    nlist_count |-> Len(local)]>>]

\* The main file: Foo's Mach header at 0x100, libA's at 0x200, the symtab
\* at 0x400, its strings at 0x500 and, when there is no symbols file, the
\* local-symbols block at 0x600.
MainFile(symtab, local, has_symbols) ==
    [machs |-> (256 :> FooMach(symtab)) @@ (512 :> LibAMach),
     nlists |-> TableAt(1024, symtab)
                @@ (IF has_symbols THEN EmptyMap ELSE TableAt(1536 + 32 + 16, local)),
     chars |-> CharsAt(1280, StringTable)
               @@ (IF has_symbols THEN EmptyMap ELSE CharsAt(1536 + 128, StringTable))]
SymbolsFile(local) ==
    [machs |-> EmptyMap, nlists |-> TableAt(1536 + 32 + 16, local),
     chars |-> CharsAt(1536 + 128, StringTable)]

InitImage ==
    /\ files = [p \in Paths |-> NoFile]
    /\ sidecar = [p \in Paths |-> NoFile]
    /\ write_queue = EmptyMap
    /\ printed = EmptyMap
    /\ last = FirstOp
    /\ precommit = files
    /\ nwrites = 0
    /\ DriverIdle
    /\ res = NoRes
    /\ \E symtab \in Lists(SymtabRecords), local \in Lists(LocalRecords), has_symbols \in BOOLEAN :
         LET streams ==
                 (MainPath :> [HeaderStream(512, <<ImageMapping>>, U64(4096))
                                  EXCEPT !.uuid = has_symbols, !.images_1C0 = ThreeImages,
                                         !.local_symbols_off = 1536,
                                         !.local_info = LocalInfo(local)])
              @@ (SymbolsPath :> [HeaderStream(512, <<MS>>, U64(0))
                                  EXCEPT !.local_symbols_off = 1536,
                                         !.local_info = LocalInfo(local)])
             an == CacheAnalyser(MainPath, streams)
         IN  /\ an.ok
             /\ caches = an.caches
             /\ symbols_cache = an.symbols_cache
             /\ ptr_file = (MainPath :> MainFile(symtab, local, has_symbols))
                           @@ (SymbolsPath :> SymbolsFile(local))

Matchers == {ImageMatch(LibAPath), FrameworkMatch(Foo), PrivateFrameworkMatch(Foo)}
NoResolve == [done |-> FALSE]

\* find_image(image_match)
FindImage(m) ==
    /\ res = NoRes
    /\ res' = [op |-> "find_image", matcher |-> m,
               image |-> find_image(caches, symbols_cache, ptr_file, m),
               resolve |-> NoResolve]
    /\ UNCHANGED <<patcherVars, driverVars, caches, symbols_cache, ptr_file>>

Variants == {"_a", "_b", "a", "_zz"}
VariantLists == {<<v>> : v \in Variants} \cup {<<v, w>> : v \in Variants, w \in Variants}

\* image.resolve_sym(variants...)
ResolveSym(variants) ==
    /\ res.op = "find_image"
    /\ res.image.ok
    /\ ~res.resolve.done
    /\ LET r == resolve_sym(res.image.symbols, variants, 1)
       IN  res' = [res EXCEPT !.image.symbols = r.symbols,
                              !.resolve = [done |-> TRUE, variants |-> variants,
                                           before |-> res.image.symbols,
                                           ok |-> r.ok, value |-> r.value,
                                           missing |-> r.missing]]
    /\ UNCHANGED <<patcherVars, driverVars, caches, symbols_cache, ptr_file>>

NextImage ==
    \/ \E m \in Matchers : FindImage(m)
    \/ \E variants \in VariantLists : ResolveSym(variants)

SpecImage == InitImage /\ [][NextImage]_vars

(***************************************************************************)
(* Specification SpecObjC: an analyser over a main cache and one subcache, *)
(* one image with an Objective-C class list whose slots, class objects,    *)
(* class-ro objects and names each lie in one of the two members; one      *)
(* find_image with or without the class walk.                              *)
(***************************************************************************)

\* CacheAnalyser::read_ptr_at(image_base, vm_addr): the pointer at vm_addr,
\* read from the file of the first member that maps it.
read_ptr_at_vm(cs, fs, image_base, vm_addr) ==
    LET loc == find_entry_from_vm_addr(cs, vm_addr)
    IN  IF ~loc.ok THEN [ok |-> FALSE, why |-> "out_of_range", val |-> U64(0)]
        ELSE read_ptr_at(cs, fs[cs[loc.index].path].data, image_base, ToOffset(loc.off))

NoClasses(why) == [ok |-> FALSE, why |-> why, objc_classes |-> EmptyMap]

\* The loop over the class list, the file of the member that holds the list
\* standing open: the slot at cur_off, then the words at class + 0x20 and at
\* class_ro + 0x18 through that member's header, then the name through
\* find_entry_from_vm_addr.
RECURSIVE ObjCWalk(_, _, _, _, _, _, _)
ObjCWalk(cs, fs, image_base, list_index, cur_off, end_off, classes) ==
    IF cur_off >= end_off THEN [ok |-> TRUE, why |-> "", objc_classes |-> classes]
    ELSE LET file == fs[cs[list_index].path].data
             header == cs[list_index].header
             class_addr == read_ptr_at(cs, file, image_base, cur_off)
             ro_off == vm_addr_to_file_off(header, BVAdd(class_addr.val, U64(32)))
             class_ro_addr == read_ptr_at(cs, file, image_base, ToOffset(ro_off.off))
             name_off == vm_addr_to_file_off(header, BVAdd(class_ro_addr.val, U64(24)))
             class_name_addr == read_ptr_at(cs, file, image_base, ToOffset(name_off.off))
             name_loc == find_entry_from_vm_addr(cs, class_name_addr.val)
             class_name == read_cstr(fs[cs[name_loc.index].path].chars, ToOffset(name_loc.off))
         IN  IF ~class_addr.ok THEN NoClasses(class_addr.why)
             ELSE IF ~ro_off.ok THEN NoClasses("out_of_range")
             ELSE IF ~class_ro_addr.ok THEN NoClasses(class_ro_addr.why)
             ELSE IF ~name_off.ok THEN NoClasses("out_of_range")
             ELSE IF ~class_name_addr.ok THEN NoClasses(class_name_addr.why)
             ELSE IF ~name_loc.ok THEN NoClasses("out_of_range")
             ELSE IF ~class_name.ok THEN NoClasses("read")
             ELSE ObjCWalk(cs, fs, image_base, list_index, cur_off + 8, end_off,
                           IF class_name.s \in DOMAIN classes THEN classes
                           ELSE classes @@ (class_name.s :> class_addr.val))

\* The Objective-C part of find_image for the image whose Mach header is mach.
objc_classes(cs, fs, image_base, mach, with_objc_classes) ==
    IF ~with_objc_classes THEN [ok |-> TRUE, why |-> "", objc_classes |-> EmptyMap]
    ELSE LET found == {x \in mach.sections :
                          x.seg = "__DATA_CONST" /\ x.name = "__objc_classlist"}
             class_list == CHOOSE x \in found : TRUE
             loc == find_entry_from_vm_addr(cs, class_list.vm_addr)
         IN  IF found = {} THEN NoClasses("not_found")
             ELSE IF ~loc.ok THEN NoClasses("out_of_range")
             ELSE ObjCWalk(cs, fs, image_base, loc.index, ToOffset(loc.off),
                           ToOffset(loc.off) + class_list.vm_size, EmptyMap)

\* The end of find_image: the classes of the image found are added to it.
ImageWithClasses(cs, fs, image, with_objc_classes) ==
    IF ~image.ok THEN [image |-> image, ok |-> FALSE, why |-> image.why,
                       objc_classes |-> EmptyMap]
    ELSE LET walk == objc_classes(cs, fs, image.vm_addr, fs[image.path].machs[image.file_off],
                                  with_objc_classes)
         IN  [image |-> image, ok |-> walk.ok, why |-> walk.why,
              objc_classes |-> walk.objc_classes]

\* CacheAnalyser::find_image(image_match, with_objc_classes)
find_image_objc(cs, sym_cache, fs, m, with_objc_classes) ==
    ImageWithClasses(cs, fs, find_image(cs, sym_cache, fs, m), with_objc_classes)

\* Member 1 maps [0x1000, 0x1100), member 2 maps [0x2000, 0x2100), each to
\* the start of its file.
MemberBase(m) == 4096 * m
\* Offsets inside a member: class-list slots, class objects, class-ro
\* objects and names of class k = 0, 1.
SlotAt(k) == 128 + 8 * k
ClassAt(k) == 144 + 8 * k
ClassRoAt(k) == 192 + 8 * k
NameAt(k) == 232 + 8 * k
ClassNames == <<"A", "B">>

\* The pointer stored in the 8-byte word at offset o of member m's file under
\* layout lay = [list, cls, ro, name] (the member each kind of data lies in)
\* with count classes; 0 where the layout stores nothing.
PointerAt(m, lay, count, o) ==
    LET Holds(at, mem) == \E k \in 0..(count - 1) : o = at + 8 * k /\ m = mem
    IN  IF Holds(128, lay.list) THEN MemberBase(lay.cls) + ClassAt((o - 128) \div 8)
        ELSE IF Holds(176, lay.cls) THEN MemberBase(lay.ro) + ClassRoAt((o - 176) \div 8)
        ELSE IF Holds(216, lay.ro) THEN MemberBase(lay.name) + NameAt((o - 216) \div 8)
        ELSE 0

\* The 256 bytes of member m's file: rebase fixup words, least significant
\* byte first.
ObjCData(m, lay, count) ==
    [k \in 1..256 |->
        LET v == PointerAt(m, lay, count, 8 * ((k - 1) \div 8))
            b == (k - 1) % 8
        IN  IF b = 0 THEN v % 256 ELSE IF b = 1 THEN v \div 256 ELSE 0]

ObjCChars(m, lay, count) ==
    IF m # lay.name \/ count = 0 THEN EmptyMap
    ELSE IF count = 1 THEN CharsAt(NameAt(0), <<"A", "">>)
    ELSE CharsAt(NameAt(0), <<"A", "">>) @@ CharsAt(NameAt(1), <<"B", "">>)

ObjCMach(lay, count, has_section) ==
    [segments |-> {Linkedit},
     symtab |-> [present |-> FALSE, sym_off |-> U64(0), str_off |-> U64(0), sym_count |-> 0],
     sections |-> IF has_section
                  THEN {[seg |-> "__DATA_CONST", name |-> "__objc_classlist",
                         vm_addr |-> U64(MemberBase(lay.list) + SlotAt(0)),
                         vm_size |-> 8 * count]}
                  ELSE {[seg |-> "__DATA_CONST", name |-> "__const",
                         vm_addr |-> U64(4096), vm_size |-> 16]}]

ObjCFile(m, lay, count, has_section) ==
    [machs |-> IF m = 1 THEN (0 :> ObjCMach(lay, count, has_section)) ELSE EmptyMap,
     nlists |-> EmptyMap,
     chars |-> ObjCChars(m, lay, count),
     data |-> ObjCData(m, lay, count)]

Layouts == [list : 1..2, cls : 1..2, ro : 1..2, name : 1..2]

InitObjC ==
    /\ files = [p \in Paths |-> NoFile]
    /\ sidecar = [p \in Paths |-> NoFile]
    /\ write_queue = EmptyMap
    /\ printed = EmptyMap
    /\ last = FirstOp
    /\ precommit = files
    /\ nwrites = 0
    /\ DriverIdle
    /\ res = NoRes
    /\ \E lay \in Layouts, count \in 0..2, has_section \in BOOLEAN :
         LET streams ==
                 (MainPath :> [HeaderStream(512, <<Mapping(U64(4096), U64(256), U64(0))>>,
                                            U64(4096))
                                  EXCEPT !.images_1C0 =
                                             Dir(768, 1, <<[base |-> U64(4096),
                                                            path |-> LibAPath]>>),
                                         !.subcaches_188 = OneSub])
              @@ (SubPath :> HeaderStream(512, <<Mapping(U64(8192), U64(256), U64(0))>>,
                                          U64(0)))
             an == CacheAnalyser(MainPath, streams)
         IN  /\ an.ok
             /\ caches = an.caches
             /\ symbols_cache = an.symbols_cache
             /\ ptr_file = (MainPath :> ObjCFile(1, lay, count, has_section))
                           @@ (SubPath :> ObjCFile(2, lay, count, has_section))

\* find_image(image_match, with_objc_classes)
FindImageObjC(m, with_objc_classes) ==
    /\ res = NoRes
    /\ res' = [op |-> "find_image_objc", matcher |-> m,
               with_objc_classes |-> with_objc_classes,
               r |-> find_image_objc(caches, symbols_cache, ptr_file, m, with_objc_classes)]
    /\ UNCHANGED <<patcherVars, driverVars, caches, symbols_cache, ptr_file>>

NextObjC ==
    \E m \in {ImageMatch(LibAPath), FrameworkMatch(Foo)}, with_objc_classes \in BOOLEAN :
        FindImageObjC(m, with_objc_classes)

SpecObjC == InitObjC /\ [][NextObjC]_vars

(***************************************************************************)
(* Properties of find_image and resolve_sym, checked under SpecImage.      *)
(***************************************************************************)
\* The nlist records of Foo's symtab command and of its local-symbols entry,
\* in table order, as they lie in the member files.
SymtabIn ==
    LET f == ptr_file[MainPath]
    IN  [k \in 1..f.machs[256].symtab.sym_count |-> f.nlists[1024 + 16 * (k - 1)]]
LocalIn ==
    LET e == IF symbols_cache.present THEN symbols_cache ELSE caches[1]
        n == e.header.local_symbols.entries[U64(4352)].nlist_count
    IN  [k \in 1..n |-> ptr_file[e.path].nlists[1584 + 16 * (k - 1)]]

\* The name each string index used by the records denotes in StringTable.
StrxName == (0 :> "") @@ (1 :> "_a") @@ (2 :> "a") @@ (3 :> "") @@ (4 :> "_b")
            @@ (7 :> "<redacted>")
Passes(e) ==
    /\ e.strx # 0
    /\ (e.raw \div 2) % 8 = 7
    /\ StrxName[e.strx] \notin {"", "<redacted>"}
FoundFoo == res.op = "find_image" /\ res.matcher = FrameworkMatch(Foo) /\ res.image.ok

\* C14: the symbol map of the image found gives every name the value of the
\* earliest entry, symtab command first and local symbols second, each in
\* table order, that passes the filters and carries the name.
C14_FirstWriteWins ==
    FoundFoo =>
        LET all == SymtabIn \o LocalIn
        IN  \A name \in DOMAIN res.image.symbols :
                \E k \in 1..Len(all) :
                    /\ Passes(all[k]) /\ StrxName[all[k].strx] = name
                    /\ \A j \in 1..(k - 1) : ~(Passes(all[j]) /\ StrxName[all[j].strx] = name)
                    /\ res.image.symbols[name] = all[k].value

\* Symtab `_a -> 0x1000`, then a second `_a` in the symtab, and local
\* symbols `_a -> 0x2000`: resolve_sym("_a") gives 0x1000.
C14_Witness ==
    /\ FoundFoo
    /\ SymtabIn = <<NList(1, 14, U64(4096)), NList(1, 15, U64(4368))>>
    /\ LocalIn = <<NList(1, 14, U64(8192)), NList(4, 30, U64(8208))>>
    /\ res.resolve.done
    /\ res.resolve.variants = <<"_a">>
    /\ res.resolve.ok
    /\ res.resolve.value = U64(4096)

\* C15: the names of the symbol map are exactly the names of the entries,
\* of either table, with strx non-zero, bits 1..3 of the type byte equal to
\* 7 and a name that is neither empty nor "<redacted>", and every value of
\* the map is the value of such an entry of that name.
C15_Filtering ==
    FoundFoo =>
        LET all == SymtabIn \o LocalIn
        IN  /\ DOMAIN res.image.symbols
                 = {StrxName[all[k].strx] : k \in {j \in 1..Len(all) : Passes(all[j])}}
            /\ \A name \in DOMAIN res.image.symbols :
                   \E k \in 1..Len(all) :
                       /\ Passes(all[k]) /\ StrxName[all[k].strx] = name
                       /\ all[k].value = res.image.symbols[name]

\* Entries with strx 0, with "<redacted>", with an empty name and with type
\* bits other than 7 are left out; the one entry that passes is mapped.
C15_Witness ==
    /\ FoundFoo
    /\ SymtabIn = <<NList(2, 112, U64(16384)), NList(7, 14, U64(20480))>>
    /\ LocalIn = <<NList(3, 14, U64(16384)), NList(4, 30, U64(8208))>>
    /\ res.image.symbols = ("_b" :> U64(8208))

\* C16: resolve_sym gives the value of the first variant, in argument order,
\* that is a key of the map; when none is, it fails naming the first
\* variant; the map is the same after the call.
C16_ResolveSym ==
    (res.op = "find_image" /\ res.resolve.done) =>
        LET vs == res.resolve.variants
            m == res.resolve.before
            hits == {i \in 1..Len(vs) : vs[i] \in DOMAIN m}
        IN  /\ res.image.symbols = m
            /\ IF hits = {}
               THEN ~res.resolve.ok /\ res.resolve.missing = vs[1]
               ELSE /\ res.resolve.ok
                    /\ res.resolve.value = m[vs[CHOOSE i \in hits : \A j \in hits : i <= j]]

\* Two variants of which only the second exists, and two that both exist
\* with different values.
C16_Witness ==
    /\ res.op = "find_image"
    /\ res.resolve.done
    /\ res.resolve.variants = <<"_zz", "_b">>
    /\ "_a" \in DOMAIN res.resolve.before
    /\ "_b" \in DOMAIN res.resolve.before
    /\ res.resolve.before["_a"] # res.resolve.before["_b"]
    /\ res.resolve.ok
    /\ res.resolve.value = res.resolve.before["_b"]

(***************************************************************************)
(* Assembler (assembler.hpp): encoders, the ADRP/ADD pair and the BL       *)
(* scanner.  Instructions are 32-bit values, addresses 64-bit values.      *)
(***************************************************************************)
BL_INST == FromHalves(37888, 0)         \* 0x94000000
BL_INST_MASK == FromHalves(64512, 0)    \* 0xFC000000
ADRP_INST == FromHalves(36864, 0)       \* 0x90000000
ADD_INST == FromHalves(4352, 0)         \* 0x11000000
BLR_INST == FromHalves(54847, 0)        \* 0xD63F0000

\* Conversions between std::uint64_t and the 32-bit types.
Trunc32(v) == SubSeq(v, 1, 2)
Ext64(v) == v \o <<0, 0>>
\* a < b for std::int32_t in two's complement.
SLt32(a, b) == BVLt(BVAdd(a, FromHalves(32768, 0)), BVAdd(b, FromHalves(32768, 0)))

NoInst(why) == [ok |-> FALSE, why |-> why, inst |-> FromNat(0, 32)]
Inst32(inst) == [ok |-> TRUE, why |-> "", inst |-> inst]

\* Mutant of make_movz: the immediate is placed at bit 4.
make_movzImm4(reg, wide, imm, shift) ==
    IF wide /\ shift # 0 THEN NoInst("invalid_argument")
    ELSE Inst32(BVOr(BVOr(Shl(FromNat(IF wide THEN 1 ELSE 0, 32), 31), MOVZ_INST),
                     BVOr(Shl(FromNat(shift, 32), 21),
                          BVOr(Shl(FromNat(imm, 32), 4), FromNat(reg, 32)))))

\* Assembler::make_movz; shift is the MOVZShift enumerator 0..3.
make_movz(reg, wide, imm, shift) ==
    IF wide /\ shift # 0 THEN NoInst("invalid_argument")
    ELSE Inst32(BVOr(BVOr(Shl(FromNat(IF wide THEN 1 ELSE 0, 32), 31), MOVZ_INST),
                     BVOr(Shl(FromNat(shift, 32), 21),
                          BVOr(Shl(FromNat(imm, 32), 5), FromNat(reg, 32)))))

make_blr(reg) == BVOr(BLR_INST, Shl(FromNat(reg, 32), 5))

\* sign_extend(val, i) of bit.hpp
sign_extend(val, i) ==
    IF bit_test(val, i) THEN BVOr(val, make_bit_mask(Width(val), i, Width(val) - i)) ELSE val

\* Mutant of disas_bl: the immediate is not sign-extended.
disas_blUnsigned(inst_addr, inst) == BVAdd(inst_addr, Ext64(Shl(bit_extract(inst, 0, 26), 2)))

\* Assembler::disas_bl: the target of the BL `inst` placed at inst_addr.
disas_bl(inst_addr, inst) ==
    LET imm == Shl(sign_extend(bit_extract(inst, 0, 26), 25), 2)
    IN  IF bit_test(imm, 31)
        THEN BVSub(inst_addr, Ext64(BVSub(FromNat(0, 32), imm)))
        ELSE BVAdd(inst_addr, Ext64(imm))

ADRP_IMM_MAX == make_bit_mask(32, 0, 20)
ADRP_MAX == Shl(make_bit_mask(64, 0, 20), 12)

\* Assembler::make_adrp; off is the std::int32_t page offset.
make_adrp(off, reg) ==
    IF SLt32(ADRP_IMM_MAX, off) \/ SLt32(off, BVSub(FromNat(0, 32), ADRP_IMM_MAX))
    THEN NoInst("invalid_argument")
    ELSE Inst32(BVOr(BVOr(ADRP_INST, Shl(bit_extract(off, 0, 2), 29)),
                     BVOr(Shl(bit_extract(off, 2, 19), 5), FromNat(reg, 32))))

\* Assembler::make_add; imm is a std::uint16_t, shift the ADDShift enumerator.
make_add(imm, wide, source_reg, dest_reg, shift) ==
    IF (imm \div 4096) % 16 # 0 THEN NoInst("invalid_argument")
    ELSE Inst32(BVOr(BVOr(ADD_INST, Shl(FromNat(IF wide THEN 1 ELSE 0, 32), 31)),
                     BVOr(BVOr(Shl(FromNat(shift, 32), 22), Shl(FromNat(imm, 32), 10)),
                          BVOr(Shl(FromNat(source_reg, 32), 5), FromNat(dest_reg, 32)))))

\* The outcome of a write_* call: the queue and the caller's cursor after it.
AsmResult(ok, why, wq, address) == [ok |-> ok, why |-> why, wq |-> wq, address |-> address]

\* Assembler::write_inst_incr
write_inst_incr(wq, path, header, target, inst) ==
    LET r == write_inst(wq, path, header, target, inst)
    IN  IF r.ok THEN AsmResult(TRUE, "", r.wq, BVAdd(target, U64(4)))
        ELSE AsmResult(FALSE, "out_of_range", wq, target)

\* write_movz, write_nop, write_ret, write_blr: encode, then write_inst.
write_encoded(wq, path, header, target, enc) ==
    IF ~enc.ok THEN AsmResult(FALSE, enc.why, wq, target)
    ELSE LET r == write_inst(wq, path, header, target, enc.inst)
         IN  AsmResult(r.ok, IF r.ok THEN "" ELSE "out_of_range", r.wq, target)

\* write_movz_incr, write_nop_incr, write_ret_incr: encode, then
\* write_inst_incr.
write_encoded_incr(wq, path, header, target, enc) ==
    IF ~enc.ok THEN AsmResult(FALSE, enc.why, wq, target)
    ELSE write_inst_incr(wq, path, header, target, enc.inst)

\* Mutant of write_adrp_add_incr: the cursor's own address, not its page, is
\* taken as the base of the page offset.
write_adrp_add_incrNoPage(wq, path, header, address, target, reg) ==
    LET page_mask == FromLimbs(65535, 65535, 65535, 61440)
        pc_page == address
        target_page == BVAnd(target, page_mask)
        low12 == ToNat(BVAnd(target, U64(4095)))
        forward == BVLt(pc_page, target_page)
        off_pages == IF forward THEN BVSub(target_page, pc_page) ELSE BVSub(pc_page, target_page)
        off == IF forward THEN Trunc32(Shr(off_pages, 12))
               ELSE Trunc32(BVSub(U64(0), Shr(off_pages, 12)))
        adrp == make_adrp(off, reg)
        w1 == write_inst_incr(wq, path, header, address, adrp.inst)
        add == make_add(low12, TRUE, reg, reg, 0)
        w2 == write_inst_incr(w1.wq, path, header, w1.address, add.inst)
    IN  IF BVLt(ADRP_MAX, off_pages) THEN AsmResult(FALSE, "invalid_argument", wq, address)
        ELSE IF ~adrp.ok THEN AsmResult(FALSE, adrp.why, wq, address)
        ELSE IF ~w1.ok THEN w1
        ELSE IF ~add.ok THEN AsmResult(FALSE, add.why, w1.wq, w1.address)
        ELSE w2

\* Assembler::write_adrp_add_incr
write_adrp_add_incr(wq, path, header, address, target, reg) ==
    LET page_mask == FromLimbs(65535, 65535, 65535, 61440)
        pc_page == BVAnd(address, page_mask)
        target_page == BVAnd(target, page_mask)
        low12 == ToNat(BVAnd(target, U64(4095)))
        forward == BVLt(pc_page, target_page)
        off_pages == IF forward THEN BVSub(target_page, pc_page) ELSE BVSub(pc_page, target_page)
        off == IF forward THEN Trunc32(Shr(off_pages, 12))
               ELSE Trunc32(BVSub(U64(0), Shr(off_pages, 12)))
        adrp == make_adrp(off, reg)
        w1 == write_inst_incr(wq, path, header, address, adrp.inst)
        add == make_add(low12, TRUE, reg, reg, 0)
        w2 == write_inst_incr(w1.wq, path, header, w1.address, add.inst)
    IN  IF BVLt(ADRP_MAX, off_pages) THEN AsmResult(FALSE, "invalid_argument", wq, address)
        ELSE IF ~adrp.ok THEN AsmResult(FALSE, adrp.why, wq, address)
        ELSE IF ~w1.ok THEN w1
        ELSE IF ~add.ok THEN AsmResult(FALSE, add.why, w1.wq, w1.address)
        ELSE w2

\* read_u32_le at pos: a short read raises the runtime_error of read_stream.
read_u32_le(data, pos) ==
    IF pos + 4 > Len(data) THEN [ok |-> FALSE, value |-> FromNat(0, 32)]
    ELSE [ok |-> TRUE, value |-> AssembleLE(data, pos, 3, 32)]

\* A failed scan; `inspected` counts the candidates put to the match test.
\* "not_found" is the std::out_of_range thrown after the loop ("no ...
\* instruction found"), "out_of_range" the one thrown by seek_stream and
\* vm_addr_to_file_off, "runtime_error" the one thrown by read_stream.
NotFound(why, inspected) ==
    [ok |-> FALSE, why |-> why, addr |-> U64(0), inspected |-> inspected]

CBZ_INST == FromHalves(13312, 0)            \* 0x34000000
CBZ_INST_MASK == FromHalves(32512, 0)       \* 0x7F000000
BLRA_INST == FromHalves(54847, 2048)        \* 0xD63F0800
BLRA_INST_MASK == FromHalves(65279, 63488)  \* 0xFEFFF800

\* The loop of find_cbz from candidate i on, the stream standing at pos:
\* read the word, in reverse mode seek back by two words, then test it.
RECURSIVE ScanCbz(_, _, _, _, _, _, _)
ScanCbz(data, pos, start_addr, wide, rev, inst_limit, i) ==
    IF i >= inst_limit THEN NotFound("not_found", i)
    ELSE LET step == Shl(U64(i), 2)
             rd == read_u32_le(data, pos)
         IN  IF ~rd.ok THEN NotFound("runtime_error", i)
             ELSE IF rev /\ pos < 4 THEN NotFound("out_of_range", i)
             ELSE IF BVAnd(rd.value, CBZ_INST_MASK) = CBZ_INST /\ bit_test(rd.value, 31) = wide
                  THEN [ok |-> TRUE, why |-> "", inspected |-> i + 1,
                        addr |-> IF rev THEN BVSub(start_addr, step)
                                 ELSE BVAdd(start_addr, step)]
                  ELSE ScanCbz(data, IF rev THEN pos - 4 ELSE pos + 4, start_addr, wide,
                               rev, inst_limit, i + 1)

\* Assembler::find_cbz
find_cbz(data, header, start_addr, wide, rev, inst_limit) ==
    LET base == vm_addr_to_file_off(header, start_addr)
    IN  IF ~base.ok THEN NotFound("out_of_range", 0)
        ELSE ScanCbz(data, ToOffset(base.off), start_addr, wide, rev, inst_limit, 0)

\* The loop of find_bl from candidate i on, the stream standing at pos.
\* target_addr of all ones (-1ULL) accepts every BL.
RECURSIVE ScanBl(_, _, _, _, _, _, _)
ScanBl(data, pos, start_addr, target_addr, rev, inst_limit, i) ==
    IF i >= inst_limit THEN NotFound("not_found", i)
    ELSE LET step == Shl(U64(i), 2)
             inst_addr == IF rev THEN BVSub(start_addr, step) ELSE BVAdd(start_addr, step)
             rd == read_u32_le(data, pos)
         IN  IF ~rd.ok THEN NotFound("runtime_error", i)
             ELSE IF rev /\ pos < 4 THEN NotFound("out_of_range", i)
             ELSE IF /\ BVAnd(rd.value, BL_INST_MASK) = BL_INST
                     /\ \/ target_addr = FromLimbs(65535, 65535, 65535, 65535)
                        \/ disas_bl(inst_addr, rd.value) = target_addr
                  THEN [ok |-> TRUE, why |-> "", addr |-> inst_addr, inspected |-> i + 1]
                  ELSE ScanBl(data, IF rev THEN pos - 4 ELSE pos + 4, start_addr, target_addr,
                              rev, inst_limit, i + 1)

\* The loop of find_blra from candidate i on, the stream standing at pos.
RECURSIVE ScanBlra(_, _, _, _, _, _, _, _)
ScanBlra(data, pos, start_addr, zero, key_b, rev, inst_limit, i) ==
    IF i >= inst_limit THEN NotFound("not_found", i)
    ELSE LET step == Shl(U64(i), 2)
             inst_addr == IF rev THEN BVSub(start_addr, step) ELSE BVAdd(start_addr, step)
             rd == read_u32_le(data, pos)
         IN  IF ~rd.ok THEN NotFound("runtime_error", i)
             ELSE IF rev /\ pos < 4 THEN NotFound("out_of_range", i)
             ELSE IF /\ BVAnd(rd.value, BLRA_INST_MASK) = BLRA_INST
                     /\ bit_test(rd.value, 24) = zero
                     /\ bit_test(rd.value, 10) = key_b
                  THEN [ok |-> TRUE, why |-> "", addr |-> inst_addr, inspected |-> i + 1]
                  ELSE ScanBlra(data, IF rev THEN pos - 4 ELSE pos + 4, start_addr, zero, key_b,
                                rev, inst_limit, i + 1)

\* Assembler::find_blra
find_blra(data, header, start_addr, zero, key_b, rev, inst_limit) ==
    LET base == vm_addr_to_file_off(header, start_addr)
    IN  IF ~base.ok THEN NotFound("out_of_range", 0)
        ELSE ScanBlra(data, ToOffset(base.off), start_addr, zero, key_b, rev, inst_limit, 0)

\* Mutant of find_bl: the scan goes on for one candidate more than inst_limit.
find_blOneMore(data, header, start_addr, target_addr, rev, inst_limit) ==
    LET base == vm_addr_to_file_off(header, start_addr)
    IN  IF ~base.ok THEN NotFound("out_of_range", 0)
        ELSE ScanBl(data, ToOffset(base.off), start_addr, target_addr, rev, inst_limit + 1, 0)

\* Assembler::find_bl
find_bl(data, header, start_addr, target_addr, rev, inst_limit) ==
    LET base == vm_addr_to_file_off(header, start_addr)
    IN  IF ~base.ok THEN NotFound("out_of_range", 0)
        ELSE ScanBl(data, ToOffset(base.off), start_addr, target_addr, rev, inst_limit, 0)

\* Assembler::find_bl_incr
find_bl_incr(data, header, start_addr, target_addr, rev, inst_limit) ==
    LET r == find_bl(data, header, start_addr, target_addr, rev, inst_limit)
    IN  IF r.ok THEN [r EXCEPT !.addr = BVAdd(r.addr, U64(4))] ELSE r

(***************************************************************************)
(* Specification SpecAsm: an Assembler over a Patcher that is fresh or has *)
(* one write staged, and one header with a low and a high mapping; each    *)
(* behaviour makes one assembler call.  Addresses are given as a page      *)
(* number and an offset in the page.                                       *)
(***************************************************************************)
HighPage == 2 ^ 21                      \* 2^21: the page of address 2^33
Addr(page, low) == BVAdd(Shl(U64(page), 12), U64(low))

\* vm [0x1000, 0x3000) -> file offset 0; vm [2^33, 2^33 + 0x2000) -> 32.
AsmStream ==
    HeaderStream(512, <<Mapping(U64(4096), U64(8192), U64(0)),
                        Mapping(Addr(HighPage, 0), U64(8192), U64(32))>>, U64(4096))

InitAsm ==
    /\ files = [p \in Paths |-> NoFile]
    /\ sidecar = [p \in Paths |-> NoFile]
    /\ printed = EmptyMap
    /\ last = FirstOp
    /\ precommit = files
    /\ nwrites = 0
    /\ DriverIdle
    /\ caches = <<Entry(MainPath, DyldCacheHeader(AsmStream, "Sub", U64(0)))>>
    /\ symbols_cache = NoEntry
    /\ ptr_file = <<>>
    /\ res = NoRes
    /\ write_queue \in {EmptyMap, PatcherWrite(EmptyMap, MainPath, 0, RET_BYTES)}

\* The state after a write_* call with outcome r.
Wrote(op, args, r) ==
    /\ res = NoRes
    /\ write_queue' = r.wq
    /\ res' = [op |-> op, args |-> args, ok |-> r.ok, why |-> r.why,
               before |-> write_queue, cursor |-> r.address]
    /\ UNCHANGED <<files, sidecar, printed, last, precommit, nwrites>>
    /\ UNCHANGED <<driverVars, caches, symbols_cache, ptr_file>>

\* write_nop(path, header, target)
WriteNop(page, low) ==
    Wrote("write_nop", [page |-> page, low |-> low],
          write_encoded(write_queue, MainPath, caches[1].header, Addr(page, low),
                        Inst32(NOP_INST)))

\* write_ret(path, header, target)
WriteRet(page, low) ==
    Wrote("write_ret", [page |-> page, low |-> low],
          write_encoded(write_queue, MainPath, caches[1].header, Addr(page, low),
                        Inst32(RET_INST)))

\* write_movz(path, header, target, reg, wide, imm, shift)
WriteMovz(page, low, reg, wide, imm, shift) ==
    Wrote("write_movz",
          [page |-> page, low |-> low, reg |-> reg, wide |-> wide, imm |-> imm, shift |-> shift],
          write_encoded(write_queue, MainPath, caches[1].header, Addr(page, low),
                        make_movz(reg, wide, imm, shift)))

\* write_blr(path, header, address, reg)
WriteBlr(page, low, reg) ==
    Wrote("write_blr", [page |-> page, low |-> low, reg |-> reg],
          write_encoded(write_queue, MainPath, caches[1].header, Addr(page, low),
                        Inst32(make_blr(reg))))

\* write_nop_incr(path, header, target)
WriteNopIncr(page, low) ==
    Wrote("write_nop_incr", [page |-> page, low |-> low],
          write_encoded_incr(write_queue, MainPath, caches[1].header, Addr(page, low),
                             Inst32(NOP_INST)))

\* write_ret_incr(path, header, target)
WriteRetIncr(page, low) ==
    Wrote("write_ret_incr", [page |-> page, low |-> low],
          write_encoded_incr(write_queue, MainPath, caches[1].header, Addr(page, low),
                             Inst32(RET_INST)))

\* write_movz_incr(path, header, target, reg, wide, imm, shift)
WriteMovzIncr(page, low, reg, wide, imm, shift) ==
    Wrote("write_movz_incr",
          [page |-> page, low |-> low, reg |-> reg, wide |-> wide, imm |-> imm, shift |-> shift],
          write_encoded_incr(write_queue, MainPath, caches[1].header, Addr(page, low),
                             make_movz(reg, wide, imm, shift)))

\* write_adrp_add_incr(path, header, address, target, reg)
WriteAdrpAdd(page, low, tpage, tlow, reg) ==
    Wrote("write_adrp_add_incr",
          [page |-> page, low |-> low, tpage |-> tpage, tlow |-> tlow, reg |-> reg],
          write_adrp_add_incr(write_queue, MainPath, caches[1].header, Addr(page, low),
                              Addr(tpage, tlow), reg))

\* The four bytes of the word with halves hi:lo, least significant first.
WordBytes(hi, lo) == <<lo % 256, lo \div 256, hi % 256, hi \div 256>>
\* The BL word whose displacement is delta bytes.
BLBytes(delta) ==
    LET imm26 == (delta \div 4) % 67108864
    IN  WordBytes(37888 + imm26 \div 65536, imm26 % 65536)

\* A 48-byte stream of NOPs with, at file offset off, a BL of displacement
\* delta ("at"), or a BL of displacement delta + 4 followed by one of
\* displacement delta - 4 ("decoy"), or nothing ("none").
BLStream(kind, off, delta) ==
    LET Word(j) == IF kind = "at" /\ 4 * j = off THEN BLBytes(delta)
                   ELSE IF kind = "decoy" /\ 4 * j = off THEN BLBytes(delta + 4)
                   ELSE IF kind = "decoy" /\ 4 * j = off + 4 THEN BLBytes(delta - 4)
                   ELSE NOP_BYTES
    IN  [k \in 1..48 |-> Word((k - 1) \div 4)[((k - 1) % 4) + 1]]

\* find_bl and find_bl_incr(stream, header, X, X + delta, rev, inst_limit)
FindBl(page, low, delta, kind, rev, inst_limit) ==
    /\ res = NoRes
    /\ LET X == Addr(page, low)
           Y == IF delta >= 0 THEN BVAdd(X, U64(delta)) ELSE BVSub(X, U64(-delta))
           off == ToOffset(vm_addr_to_file_off(caches[1].header, X).off)
           data == BLStream(kind, off, delta)
       IN  res' = [op |-> "find_bl",
                   args |-> [page |-> page, low |-> low, delta |-> delta, kind |-> kind,
                             rev |-> rev, inst_limit |-> inst_limit],
                   X |-> X, Y |-> Y, off |-> off, data |-> data,
                   found |-> find_bl(data, caches[1].header, X, Y, rev, inst_limit),
                   incr |-> find_bl_incr(data, caches[1].header, X, Y, rev, inst_limit)]
    /\ UNCHANGED <<patcherVars, driverVars, caches, symbols_cache, ptr_file>>

\* A 48-byte stream of NOPs with the word (hi, lo) r words after file offset
\* off and, when twice, also 2r words after it.
ScanStream(hi, lo, off, r, twice) ==
    LET Word(j) == IF 4 * j = off + 4 * r \/ (twice /\ 4 * j = off + 8 * r)
                   THEN WordBytes(hi, lo) ELSE NOP_BYTES
    IN  [k \in 1..48 |-> Word((k - 1) \div 4)[((k - 1) % 4) + 1]]

\* What a scan leaves in res.
Scanned(op, args, X, found) ==
    LET off == ToOffset(vm_addr_to_file_off(caches[1].header, X).off)
    IN  /\ res' = [op |-> op, args |-> args, X |-> X, off |-> off,
                   data |-> ScanStream(args.hi, args.lo, off, args.r, args.twice),
                   found |-> found]
        /\ UNCHANGED <<patcherVars, driverVars, caches, symbols_cache, ptr_file>>

\* find_cbz(stream, header, X, wide, rev, inst_limit)
FindCbz(page, low, hi, lo, r, twice, wide, rev, inst_limit) ==
    /\ res = NoRes
    /\ LET X == Addr(page, low)
           off == ToOffset(vm_addr_to_file_off(caches[1].header, X).off)
       IN  Scanned("find_cbz",
                   [hi |-> hi, lo |-> lo, r |-> r, twice |-> twice, wide |-> wide,
                    rev |-> rev, inst_limit |-> inst_limit],
                   X,
                   find_cbz(ScanStream(hi, lo, off, r, twice), caches[1].header, X, wide,
                            rev, inst_limit))

\* find_bl(stream, header, X) with the default target -1ULL
FindBlAny(page, low, hi, lo, r, twice, rev, inst_limit) ==
    /\ res = NoRes
    /\ LET X == Addr(page, low)
           off == ToOffset(vm_addr_to_file_off(caches[1].header, X).off)
       IN  Scanned("find_bl_any",
                   [hi |-> hi, lo |-> lo, r |-> r, twice |-> twice,
                    rev |-> rev, inst_limit |-> inst_limit],
                   X,
                   find_bl(ScanStream(hi, lo, off, r, twice), caches[1].header, X,
                           FromLimbs(65535, 65535, 65535, 65535), rev, inst_limit))

\* find_blra(stream, header, X, zero, key_b, rev, inst_limit)
FindBlra(page, low, hi, lo, r, twice, zero, key_b, rev, inst_limit) ==
    /\ res = NoRes
    /\ LET X == Addr(page, low)
           off == ToOffset(vm_addr_to_file_off(caches[1].header, X).off)
       IN  Scanned("find_blra",
                   [hi |-> hi, lo |-> lo, r |-> r, twice |-> twice, zero |-> zero,
                    key_b |-> key_b, rev |-> rev, inst_limit |-> inst_limit],
                   X,
                   find_blra(ScanStream(hi, lo, off, r, twice), caches[1].header, X, zero,
                             key_b, rev, inst_limit))

Targets == {<<1, 0>>, <<1, 4>>, <<HighPage, 8>>, <<5, 0>>}
Regs == {0, 1, 15}
Imms == {0, 1, 2048, 65535}
Cursors == {<<1, 0>>, <<1, 4088>>, <<1, 4092>>, <<2, 4092>>, <<HighPage, 0>>,
            <<HighPage, 4092>>, <<5, 0>>}
PageDeltas == {0, 1, -1, 524288, 1048575, -1048575, 1048576, -1048576, 1048577}
Lows == {0, 291, 4095}
Sites == {<<1, 0>>, <<1, 8>>, <<HighPage, 0>>, <<HighPage, 8>>}
Deltas == {0, 4, -4, 4096, -4096, 134217724, -134217724, 134217728, -134217728}
\* Scan starts at file offsets 8 and 40 of the 48-byte stream.
ScanSites == {<<1, 8>>, <<HighPage, 8>>}
Rels == {-2, -1, 0, 1, 2}
Limits == {0, 1, 2, 3, 1024}
\* cbz w1, cbz x1, cbnz w1, nop
CbzWords == {<<13312, 33>>, <<46080, 33>>, <<13568, 33>>, <<54531, 8223>>}
\* bl +8, bl -8, b +8, nop
BlWords == {<<37888, 2>>, <<38911, 65534>>, <<5120, 2>>, <<54531, 8223>>}
\* blraa x1, x2 / blrab x1, x2 / blraaz x1 / blrabz x1 / blr x1
BlraWords == {<<55103, 2082>>, <<55103, 3106>>, <<54847, 2111>>, <<54847, 3135>>,
              <<54847, 32>>}

NextAsm ==
    \/ \E t \in Targets : WriteNop(t[1], t[2])
    \/ \E t \in Targets : WriteRet(t[1], t[2])
    \/ \E t \in Targets, reg \in Regs, wide \in BOOLEAN, imm \in Imms, shift \in {0, 1, 3} :
           WriteMovz(t[1], t[2], reg, wide, imm, shift)
    \/ \E t \in Targets, reg \in Regs : WriteBlr(t[1], t[2], reg)
    \/ \E c \in Cursors : WriteNopIncr(c[1], c[2])
    \/ \E c \in Cursors : WriteRetIncr(c[1], c[2])
    \/ \E c \in Cursors, reg \in Regs, wide \in BOOLEAN, imm \in Imms, shift \in {0, 1, 3} :
           WriteMovzIncr(c[1], c[2], reg, wide, imm, shift)
    \/ \E c \in Cursors, d \in PageDeltas, tlow \in Lows, reg \in {0, 15} :
           /\ c[1] + d >= 0
           /\ WriteAdrpAdd(c[1], c[2], c[1] + d, tlow, reg)
    \/ \E x \in Sites, delta \in Deltas, kind \in {"at", "decoy", "none"}, rev \in BOOLEAN,
          inst_limit \in {1, 1024} :
           /\ x[1] = HighPage \/ 4096 + x[2] + delta >= 0
           /\ FindBl(x[1], x[2], delta, kind, rev, inst_limit)
    \/ \E x \in ScanSites, w \in CbzWords, r \in Rels, twice \in BOOLEAN, wide \in BOOLEAN,
          rev \in BOOLEAN, inst_limit \in Limits :
           FindCbz(x[1], x[2], w[1], w[2], r, twice, wide, rev, inst_limit)
    \/ \E x \in ScanSites, w \in BlWords, r \in Rels, twice \in BOOLEAN, rev \in BOOLEAN,
          inst_limit \in Limits :
           FindBlAny(x[1], x[2], w[1], w[2], r, twice, rev, inst_limit)
    \/ \E x \in ScanSites, w \in BlraWords, r \in Rels, twice \in BOOLEAN, zero \in BOOLEAN,
          key_b \in BOOLEAN, rev \in BOOLEAN, inst_limit \in Limits :
           FindBlra(x[1], x[2], w[1], w[2], r, twice, zero, key_b, rev, inst_limit)

SpecAsm == InitAsm /\ [][NextAsm]_vars

(***************************************************************************)
(* Properties of the assembler, checked under SpecAsm.  The expected words *)
(* are computed on natural numbers from the 16-bit halves of a word.       *)
(***************************************************************************)
\* The file offset the header of SpecAsm gives the address (page, low).
FileOffOf(page, low) ==
    IF page >= HighPage THEN 32 + (page - HighPage) * 4096 + low
    ELSE (page - 1) * 4096 + low
IsMapped(page, low) ==
    \/ page \in {1, 2}
    \/ page \in {HighPage, HighPage + 1}
StagedBefore == IF MainPath \in DOMAIN res.before THEN res.before[MainPath] ELSE EmptyMap

\* The call handed `bytes` for file offset off of the main path to the
\* Patcher: the queue holds what it held, and the bytes at off unless that
\* offset was staged already.
StagedAt(off, bytes) ==
    /\ DOMAIN write_queue = {MainPath}
    /\ DOMAIN write_queue[MainPath] = DOMAIN StagedBefore \cup {off}
    /\ \A o \in DOMAIN StagedBefore : write_queue[MainPath][o] = StagedBefore[o]
    /\ off \notin DOMAIN StagedBefore => write_queue[MainPath][off] = bytes

\* The word each single-instruction call is to encode, as halves hi:lo.
ExpectedWord ==
    LET a == res.args
    IN  CASE res.op = "write_nop" -> <<54531, 8223>>
          [] res.op = "write_ret" -> <<54879, 960>>
          [] res.op = "write_movz" ->
                 <<21120 + (IF a.wide THEN 32768 ELSE 0) + a.shift * 32 + a.imm \div 2048,
                   (a.imm % 2048) * 32 + a.reg>>
          [] res.op = "write_blr" -> <<54847, a.reg * 32>>

\* C18: write_nop, write_ret, write_movz and write_blr at a mapped address
\* hand the Patcher the four little-endian bytes of 0xD503201F, 0xD65F03C0,
\* 0x52800000 | wide<<31 | shift<<21 | imm16<<5 | reg and 0xD63F0000 | reg<<5
\* for the file offset vm_addr_to_file_off gives the address, on the given
\* path; write_movz with wide and a non-zero shift fails instead.
C18_Encodings ==
    (res.op \in {"write_nop", "write_ret", "write_movz", "write_blr"}
        /\ IsMapped(res.args.page, res.args.low)) =>
        /\ res.ok = ~(res.op = "write_movz" /\ res.args.wide /\ res.args.shift # 0)
        /\ res.ok => StagedAt(FileOffOf(res.args.page, res.args.low),
                              WordBytes(ExpectedWord[1], ExpectedWord[2]))
        /\ res.op = "write_nop" /\ FileOffOf(res.args.page, res.args.low) # 0
             => write_queue[MainPath][FileOffOf(res.args.page, res.args.low)] = <<31, 32, 3, 213>>

\* MOVZ X15, #0xFFFF (0xD29FFFEF) staged at the file offset of 2^33 + 8.
C18_Witness ==
    /\ res.op = "write_movz"
    /\ res.ok
    /\ res.args.wide
    /\ res.args.imm = 65535
    /\ res.args.reg = 15
    /\ res.before = EmptyMap
    /\ write_queue = (MainPath :> (40 :> <<239, 255, 159, 210>>))

\* The halves hi:lo of the word staged at file offset off.
StagedWord(off) ==
    LET b == write_queue[MainPath][off]
    IN  <<b[3] + 256 * b[4], b[1] + 256 * b[2]>>
\* imm21 of an ADRP word, sign-extended: bits [30..29] are imm21[1:0], bits
\* [23..5] are imm21[20:2].
AdrpPages(w) ==
    LET imm21 == ((w[2] \div 32) + (w[1] % 256) * 2048) * 4 + ((w[1] \div 8192) % 4)
    IN  IF imm21 >= 1048576 THEN imm21 - 2097152 ELSE imm21
\* imm12 of an ADD word: bits [21..10].
AddImm12(w) == (w[2] \div 1024) + (w[1] % 64) * 64

\* The ADRP at the cursor and the ADD after it address the target.
AddressesTarget ==
    LET a == res.args
        adrp == StagedWord(FileOffOf(a.page, a.low))
        add == StagedWord(FileOffOf(a.page, a.low) + 4)
    IN  /\ DOMAIN write_queue[MainPath]
             = DOMAIN StagedBefore \cup {FileOffOf(a.page, a.low), FileOffOf(a.page, a.low) + 4}
        /\ a.page + AdrpPages(adrp) = a.tpage
        /\ AddImm12(add) = a.tlow
        /\ adrp[1] - (adrp[1] % 256) - ((adrp[1] \div 8192) % 4) * 8192 = 36864
        /\ adrp[2] % 32 = a.reg
        /\ add[1] - (add[1] % 64) = 37120
        /\ add[2] % 1024 = a.reg * 32 + a.reg
\* The cursor and the next instruction are mapped and neither file offset is
\* staged already.
AdrpAddCase ==
    /\ res.op = "write_adrp_add_incr"
    /\ res.args.page \in {1, HighPage}
    /\ FileOffOf(res.args.page, res.args.low) \notin DOMAIN StagedBefore
    /\ FileOffOf(res.args.page, res.args.low) + 4 \notin DOMAIN StagedBefore
\* |T - A| <= 2^32 for the target T and the cursor A of the call.
WithinFourGiB ==
    LET dp == res.args.tpage - res.args.page
        dl == res.args.tlow - res.args.low
    IN  \/ dp < 1048576 /\ dp > -1048576
        \/ dp = 1048576 /\ dl <= 0
        \/ dp = -1048576 /\ dl >= 0

C20_BLRoundTrip ==
    (/\ res.op = "find_bl"
     /\ ~res.args.rev
     /\ res.args.delta < 134217728 /\ res.args.delta > -134217728
     /\ SubSeq(res.data, res.off + 1, res.off + 4) = BLBytes(res.args.delta)) =>
        /\ res.found.ok /\ res.found.addr = res.X
        /\ res.incr.ok /\ res.incr.addr = BVAdd(res.X, U64(4))

\* A backward branch over 2^27 - 4 bytes from 2^33 + 8.
C20_Witness ==
    /\ res.op = "find_bl"
    /\ ~res.args.rev
    /\ res.args.kind = "at"
    /\ res.args.delta = -134217724
    /\ res.X = Addr(HighPage, 8)
    /\ res.Y = FromLimbs(0, 1, 63488, 12)
    /\ res.found.ok
    /\ res.found.addr = res.X
    /\ res.incr.addr = Addr(HighPage, 12)

---------------------------------------------------------------------------
\* Scans: the candidates of the scan recorded in res, read off the stream as
\* natural numbers.

IsScan == res.op \in {"find_cbz", "find_bl", "find_bl_any", "find_blra"}

\* File offset of candidate i.
CandOff(i) == IF res.args.rev THEN res.off - 4 * i ELSE res.off + 4 * i
\* The stream holds a whole word at offset o.
InStream(o) == o >= 0 /\ o + 4 <= Len(res.data)
HiAt(o) == res.data[o + 3] + 256 * res.data[o + 4]
LoAt(o) == res.data[o + 1] + 256 * res.data[o + 2]
\* Byte displacement encoded by the BL word (hi, lo).
BlDisp(hi, lo) ==
    LET imm26 == (hi % 1024) * 65536 + lo
    IN  4 * (IF imm26 >= 33554432 THEN imm26 - 67108864 ELSE imm26)

\* Candidate i is a word of the stream and matches what the scan looks for.
CandMatches(i) ==
    LET o == CandOff(i)
    IN  /\ InStream(o)
        /\ CASE res.op = "find_cbz" ->
                    /\ (HiAt(o) % 32768) \div 256 = 52
                    /\ (HiAt(o) >= 32768) = res.args.wide
             [] res.op = "find_bl_any" -> HiAt(o) \div 1024 = 37
             [] res.op = "find_bl" ->
                    /\ HiAt(o) \div 1024 = 37
                    /\ (o - res.off) + BlDisp(HiAt(o), LoAt(o)) = res.args.delta
             [] res.op = "find_blra" ->
                    /\ HiAt(o) \div 512 = 107 /\ HiAt(o) % 256 = 63
                    /\ LoAt(o) \div 2048 = 1
                    /\ ((HiAt(o) \div 256) % 2 = 1) = res.args.zero
                    /\ ((LoAt(o) \div 1024) % 2 = 1) = res.args.key_b

\* Indices of the candidates a scan of inst_limit words can meet in the stream.
ScanSpan ==
    LET words == Len(res.data) \div 4
    IN  0..((IF res.args.inst_limit < words THEN res.args.inst_limit ELSE words) - 1)
Matching == {i \in ScanSpan : CandMatches(i)}
FirstMatching == CHOOSE i \in Matching : \A j \in Matching : i <= j
\* The vm address of candidate i.
CandAddr(i) == IF res.args.rev THEN BVSub(res.X, U64(4 * i)) ELSE BVAdd(res.X, U64(4 * i))

\* C21 (as amended): with inst_limit = N a scan tests at most N candidates;
\* a returned address is start + 4k forward, start - 4k in reverse, for some
\* k in 0..N-1; a forward scan in which nothing matches tests exactly N
\* candidates and fails NotFound provided the stream holds N words from the
\* file offset of start.
C21_ScanLinearity ==
    IsScan =>
        /\ res.found.inspected <= res.args.inst_limit
        /\ res.found.ok => \E k \in ScanSpan : res.found.addr = CandAddr(k)
        /\ (/\ ~res.args.rev
            /\ Matching = {}
            /\ res.args.inst_limit >= 1
            /\ InStream(CandOff(res.args.inst_limit - 1))) =>
               /\ ~res.found.ok
               /\ res.found.why = "not_found"
               /\ res.found.inspected = res.args.inst_limit

\* Forward from file offset 8 with inst_limit 3 and no CBZ in reach: three
\* candidates are tested and the scan fails NotFound.
C21_Witness ==
    /\ res.op = "find_cbz" /\ ~res.args.rev /\ res.off = 8
    /\ res.args.inst_limit = 3 /\ Matching = {}
    /\ res.found.inspected = 3 /\ res.found.why = "not_found"

\* C21 as stated: a forward scan in which nothing matches tests exactly N
\* candidates, whatever the length of the stream.
C21_AsStated ==
    (IsScan /\ ~res.args.rev /\ ~res.found.ok) =>
        res.found.inspected = res.args.inst_limit

\* C26: a scan returns the vm address of the matching candidate with the
\* smallest index below inst_limit, in reverse mode also when that candidate
\* lies at the lowest file offsets, and fails NotFound exactly when none of
\* the first inst_limit candidates matches.
C26_ScanResult ==
    IsScan =>
        IF Matching # {}
        THEN res.found.ok /\ res.found.addr = CandAddr(FirstMatching)
        ELSE ~res.found.ok /\ res.found.why = "not_found"

\* What the scans do: the first matching candidate is returned unless the
\* scan runs in reverse and meets a candidate below file offset 4 at or
\* before it, where the seek back by two words fails with OutOfRange; with no
\* match the failure is NotFound only when all inst_limit candidates could
\* be read (and, in reverse, lie at file offset 4 or above).
C26_ActualScan ==
    IsScan =>
        LET n == res.args.inst_limit
            upto == IF Matching # {} THEN FirstMatching ELSE n - 1
            low == res.args.rev /\ \E i \in 0..11 : i <= upto /\ CandOff(i) >= 0 /\ CandOff(i) < 4
            short == \E i \in 0..12 : i <= upto /\ ~InStream(CandOff(i)) /\ InStream(CandOff(i - 1))
        IN  IF low THEN ~res.found.ok /\ res.found.why = "out_of_range"
            ELSE IF short THEN ~res.found.ok /\ res.found.why = "runtime_error"
            ELSE IF Matching # {}
                 THEN res.found.ok /\ res.found.addr = CandAddr(FirstMatching)
                 ELSE ~res.found.ok /\ res.found.why = "not_found"

\* A reverse scan from file offset 8 whose only CBZ is the word at file
\* offset 0: candidate 2 matches, yet the scan fails.
C26_LowestOffset ==
    /\ res.op = "find_cbz" /\ res.args.rev /\ res.off = 8
    /\ res.args.inst_limit = 3
    /\ Matching = {2}
    /\ ~res.found.ok /\ res.found.why = "out_of_range"

---------------------------------------------------------------------------
\* Binary reader.

IsRead == res.op = "reader" /\ res.call \notin {"seek_beg", "seek_cur"}
IsSeek == res.op = "reader" /\ res.call \in {"seek_beg", "seek_cur"}
\* Bytes left in the stream before the call.
Left == IF res.before.pos >= Len(res.before.data) THEN 0
        ELSE Len(res.before.data) - res.before.pos
\* Number of bytes before the first NUL at or after the position; Left when
\* there is none.
ToNul ==
    LET d == res.before.data
        nuls == {k \in 0..(Left - 1) : d[res.before.pos + k + 1] = 0}
    IN  IF nuls = {} THEN Left ELSE CHOOSE k \in nuls : \A j \in nuls : k <= j
\* The call reaches the end of the stream before it has all the bytes it asks for.
ShortRead ==
    /\ IsRead
    /\ CASE res.call = "read_u8" -> Left < 1
         [] res.call = "read_u16_le" -> Left < 2
         [] res.call = "read_u32_le" -> Left < 4
         [] res.call = "read_u64_le" -> Left < 8
         [] res.call = "read_cstr" -> ToNul = Left
         [] res.call = "read_cstrn" -> ToNul = Left /\ Left < res.n
SeekTarget == IF res.call = "seek_beg" THEN res.n ELSE res.before.pos + res.n

\* C22: a read that reaches the end of the stream before it has all requested
\* bytes fails with OutOfRange, a seek past the end fails with OutOfRange, and
\* IOError is raised only on a stream that had failed already.
C22_ErrorKinds ==
    (res.op = "reader" /\ ~res.before.failed) =>
        /\ ShortRead => (~res.r.ok /\ res.r.why = "out_of_range")
        /\ (IsSeek /\ SeekTarget > Len(res.before.data)) =>
               (~res.r.ok /\ res.r.why = "out_of_range")
        /\ res.r.ok \/ res.r.why # "runtime_error"

\* What the reader does: a short read fails with std::runtime_error, a seek
\* fails (with std::out_of_range) only for a negative position, and a seek
\* past the end succeeds.
C22_ActualKinds ==
    (res.op = "reader" /\ ~res.before.failed) =>
        /\ ShortRead => (~res.r.ok /\ res.r.why = "runtime_error")
        /\ (IsRead /\ ~ShortRead) => res.r.ok
        /\ IsSeek => IF SeekTarget < 0 THEN ~res.r.ok /\ res.r.why = "out_of_range"
                     ELSE res.r.ok /\ res.r.st.pos = SeekTarget

\* read_u32_le with two bytes left.
C22_ShortU32 ==
    /\ res.op = "reader" /\ res.call = "read_u32_le"
    /\ ~res.before.failed /\ Left = 2
    /\ ~res.r.ok /\ res.r.why = "runtime_error"

---------------------------------------------------------------------------
\* Objective-C class walk, checked under SpecObjC.

Walked == res.op = "find_image_objc" /\ res.with_objc_classes /\ res.r.image.ok
ClassList ==
    LET mach == ptr_file[MainPath].machs[0]
    IN  {x \in mach.sections : x.seg = "__DATA_CONST" /\ x.name = "__objc_classlist"}
\* The vm addresses of the slots of the class list.
Slots ==
    IF ClassList = {} THEN {}
    ELSE LET cl == CHOOSE x \in ClassList : TRUE
         IN  {BVAdd(cl.vm_addr, U64(8 * k)) : k \in 0..((cl.vm_size \div 8) - 1)}
\* The chain of one slot, every address resolved over all members.
ClassOf(slot) == read_ptr_at_vm(caches, ptr_file, U64(4096), slot)
ClassRoOf(slot) ==
    read_ptr_at_vm(caches, ptr_file, U64(4096), BVAdd(ClassOf(slot).val, U64(32)))
NameAddrOf(slot) ==
    read_ptr_at_vm(caches, ptr_file, U64(4096), BVAdd(ClassRoOf(slot).val, U64(24)))
NameOf(slot) ==
    LET loc == find_entry_from_vm_addr(caches, NameAddrOf(slot).val)
    IN  read_cstr(ptr_file[caches[loc.index].path].chars, ToOffset(loc.off))
Resolvable(slot) ==
    /\ ClassOf(slot).ok /\ ClassRoOf(slot).ok /\ NameAddrOf(slot).ok
    /\ find_entry_from_vm_addr(caches, NameAddrOf(slot).val).ok
    /\ NameOf(slot).ok
\* The member whose header maps vm.
MemberOf(vm) == find_entry_from_vm_addr(caches, vm).index

\* C23: with with_objc_classes, for every slot of __objc_classlist the class
\* map receives name -> P with P, RO, N and the name read at the slot,
\* P + 0x20, RO + 0x18 and N, each address resolved over all cache members,
\* also when the class data lies in another member than the class list.
C23_ClassWalk ==
    (Walked /\ ClassList # {} /\ \A slot \in Slots : Resolvable(slot)) =>
        /\ res.r.ok
        /\ \A slot \in Slots :
               /\ NameOf(slot).s \in DOMAIN res.r.objc_classes
               /\ res.r.objc_classes[NameOf(slot).s] = ClassOf(slot).val

\* What the walk does: it succeeds, with the map of the claim, exactly when
\* for every slot P + 0x20 and RO + 0x18 lie in the member that holds the
\* class list; otherwise it fails with OutOfRange.
C23_SameMember ==
    (Walked /\ ClassList # {} /\ \A slot \in Slots : Resolvable(slot)) =>
        LET home == \A slot \in Slots :
                        /\ MemberOf(BVAdd(ClassOf(slot).val, U64(32))) = MemberOf(slot)
                        /\ MemberOf(BVAdd(ClassRoOf(slot).val, U64(24))) = MemberOf(slot)
        IN  IF home
            THEN /\ res.r.ok
                 /\ \A slot \in Slots :
                        /\ NameOf(slot).s \in DOMAIN res.r.objc_classes
                        /\ res.r.objc_classes[NameOf(slot).s] = ClassOf(slot).val
            ELSE ~res.r.ok /\ res.r.why = "out_of_range"

\* The class list in the main cache, the class object in the subcache: the
\* chain resolves over the members, the walk fails.
C23_OtherMember ==
    /\ Walked
    /\ Slots = {U64(4096 + 128)}
    /\ Resolvable(U64(4096 + 128))
    /\ ClassOf(U64(4096 + 128)).val = U64(8192 + 144)
    /\ NameOf(U64(4096 + 128)).s = "A"
    /\ ~res.r.ok /\ res.r.why = "out_of_range"

\* Two classes, everything in the subcache: the map is A -> 0x2090, B -> 0x2098.
C23_SubcacheClasses ==
    /\ Walked /\ res.r.ok
    /\ MemberOf(U64(8192 + 128)) = 2
    /\ res.r.objc_classes = ("A" :> U64(8192 + 144)) @@ ("B" :> U64(8192 + 152))

---------------------------------------------------------------------------
\* Revert order and the staging buffer, checked under Spec.

\* The entries <<offset, bytes>> a well-formed sidecar records, in the order
\* of its lines.
RECURSIVE SidecarEntries(_, _)
SidecarEntries(tokens, acc) ==
    IF tokens = <<>> THEN acc
    ELSE LET tok == Head(tokens) IN
         IF tok[Len(tok)] = ":"
         THEN SidecarEntries(Tail(tokens),
                             Append(acc, <<ParseHex(SubSeq(tok, 1, Len(tok) - 1)).value, <<>>>>))
         ELSE SidecarEntries(Tail(tokens),
                             [acc EXCEPT ![Len(acc)] =
                                 <<acc[Len(acc)][1], Append(acc[Len(acc)][2], ParseHex(tok).value)>>])

\* The entries written back from the last one to the first.
RECURSIVE RestoreReversed(_, _)
RestoreReversed(entries, data) ==
    IF entries = <<>> THEN data
    ELSE LET e == entries[Len(entries)]
         IN  RestoreReversed(SubSeq(entries, 1, Len(entries) - 1), PutBytes(data, e[1], e[2]))

\* C24: revert restores the entries of the sidecar in the opposite order to
\* the one in which commit recorded them, so a byte covered by two entries
\* ends as the earlier entry recorded it.
C24_ReverseReplay ==
    [][(/\ last'.op = "revert"
        /\ last'.ok
        /\ sidecar[last'.path].exists)
       => files'[last'.path].data =
              RestoreReversed(SidecarEntries(Tokens(sidecar[last'.path].data, <<>>), <<>>),
                              files[last'.path].data)]_vars

\* C25: a successful commit leaves no staged write in the Patcher, and a
\* second commit that follows it at once changes no file and no sidecar.
C25_ConsumedOnce ==
    [][(last'.op = "flush" /\ last'.ok)
       => /\ \A p \in DOMAIN write_queue' : write_queue'[p] = EmptyMap
          /\ (last.op = "flush" /\ last.ok) => (files' = files /\ sidecar' = sidecar)]_vars

\* What commit does to the buffer: it leaves it as it was.
C25_BufferKept ==
    [][last'.op = "flush" => write_queue' = write_queue]_vars

\* A second commit has replaced the record of the original bytes by a record
\* of the patch: the sidecar of P reads "4: 1f 20 3 d5 ".
C25_SidecarOverwritten ==
    /\ last.op = "flush" /\ last.ok /\ last.prev.op = "flush" /\ last.prev.ok
    /\ MainPath \in DOMAIN write_queue
    /\ write_queue[MainPath] = (4 :> NOP_BYTES)
    /\ sidecar[MainPath].data = FormatLine(4, NOP_BYTES)

---------------------------------------------------------------------------
\* Revert of an arbitrary sidecar, checked under SpecSidecar.

\* A token read as a number: its digits without leading zeros.
IsNumber(tok) == Strtol16(tok).ok
Digits(tok) == Strtol16(tok).digits
Negative(tok) == Strtol16(tok).neg /\ Digits(tok) # <<"0">>
\* The value of a token of at most seven digits.
SmallValue(tok) == HexPrefixVal(Digits(tok), 0)
\* The value exceeds 0xFF: more than two digits.
ExceedsByte(tok) == Len(Digits(tok)) > 2

\* The replay the claim describes: "format" is the failure on a byte token
\* that exceeds 0xFF or is negative, "other" any other failure.
RECURSIVE ClaimedReplay(_, _, _)
ClaimedReplay(tokens, data, cursor) ==
    IF tokens = <<>> THEN [ok |-> TRUE, kind |-> "", data |-> data]
    ELSE LET tok == Head(tokens) IN
         IF tok[Len(tok)] = ":"
         THEN LET off == SubSeq(tok, 1, Len(tok) - 1)
              IN  IF ~IsNumber(off) \/ Negative(off)
                  THEN [ok |-> FALSE, kind |-> "other", data |-> data]
                  ELSE ClaimedReplay(Tail(tokens), data, SmallValue(off))
         ELSE IF ~IsNumber(tok) THEN [ok |-> FALSE, kind |-> "other", data |-> data]
         ELSE IF ExceedsByte(tok) \/ Negative(tok)
              THEN [ok |-> FALSE, kind |-> "format", data |-> data]
              ELSE ClaimedReplay(Tail(tokens), PutByte(data, cursor, SmallValue(tok)), cursor + 1)

\* A byte token of more than eight digits, or of eight with the top bit set.
BeyondInt(tok) ==
    /\ IsNumber(tok)
    /\ \/ Len(Digits(tok)) > 8
       \/ Len(Digits(tok)) = 8 /\ HexVal(Digits(tok)[1]) >= 8
          /\ ~(Strtol16(tok).neg /\ Digits(tok) = <<"8", "0", "0", "0", "0", "0", "0", "0">>)

\* C28: revert moves the cursor at every `<hex>:` token and writes every
\* other token as one byte at the cursor; a byte token above 0xFF or negative
\* fails with FormatError and is not written; a failed revert keeps the
\* sidecar, a successful one deletes it.
C28_MalformedSidecar ==
    [][(/\ last'.op = "revert"
        /\ sidecar[last'.path].exists
        /\ files[last'.path].exists)
       => LET p == last'.path
              c == ClaimedReplay(Tokens(sidecar[p].data, <<>>), files[p].data, 0)
          IN  /\ files'[p].data = c.data
              /\ last'.ok = c.ok
              /\ c.kind = "format" => last'.why = "malformed"
              /\ sidecar'[p].exists = ~c.ok
              /\ ~c.ok => sidecar' = sidecar]_vars

\* What revert does: as claimed, except that a byte token whose value does
\* not fit an int fails with the std::out_of_range of std::stoi.
C28_ActualRevert ==
    [][(/\ last'.op = "revert"
        /\ sidecar[last'.path].exists
        /\ files[last'.path].exists)
       => LET p == last'.path
              toks == Tokens(sidecar[p].data, <<>>)
              c == ClaimedReplay(toks, files[p].data, 0)
              beyond == \E k \in 1..Len(toks) :
                            /\ BeyondInt(toks[k])
                            /\ toks[k][Len(toks[k])] # ":"
                            /\ ClaimedReplay(SubSeq(toks, 1, k - 1), files[p].data, 0).ok
          IN  /\ files'[p].data = c.data
              /\ last'.ok = c.ok
              /\ c.kind = "format" =>
                     last'.why = IF beyond THEN "out_of_range" ELSE "malformed"
              /\ sidecar'[p].exists = ~c.ok
              /\ ~c.ok => sidecar' = sidecar]_vars

\* The sidecar "2: aa 80000000": 0xAA is written at offset 2, the second
\* token fails with out_of_range, the sidecar stays.
C28_BeyondInt ==
    /\ last.op = "revert" /\ last.path = MainPath
    /\ ~last.ok /\ last.why = "out_of_range"
    /\ sidecar[MainPath].exists
    /\ sidecar[MainPath].data = <<"2", ":", " ", "a", "a", " ", "8", "0", "0", "0", "0", "0", "0", "0">>
    /\ precommit[MainPath].data[3] = 48
    /\ files[MainPath].data[3] = 170

\* The sidecar "2: aa 100 bb": 0xAA is written, the token 100 fails with
\* the runtime_error "byte too large", 0xBB is not written, the sidecar stays.
C28_ByteTooLarge ==
    /\ last.op = "revert" /\ last.path = MainPath
    /\ ~last.ok /\ last.why = "malformed"
    /\ sidecar[MainPath].exists
    /\ sidecar[MainPath].data = <<"2", ":", " ", "a", "a", " ", "1", "0", "0", " ", "b", "b">>
    /\ files[MainPath].data = <<16, 32, 170, 64, 80, 96, 112, 128>>

---------------------------------------------------------------------------
\* Failed commits, checked under SpecCommit.

\* The first k staged entries of path p, in ascending offset order, written
\* over data.
RECURSIVE ApplyFirst(_, _, _, _)
ApplyFirst(p, k, i, data) ==
    IF i > k THEN data
    ELSE LET off == Ascending(DOMAIN write_queue[p])[i]
         IN  ApplyFirst(p, k, i + 1, PutBytes(data, off, write_queue[p][off]))

\* The sidecar of p records exactly the first k staged entries of p, each
\* with the bytes it displaced, and the file holds exactly these k entries.
RecordsFirst(p, k) ==
    LET ents == SidecarEntries(Tokens(sidecar[p].data, <<>>), <<>>)
        offs == Ascending(DOMAIN write_queue[p])
    IN  /\ Len(ents) = k
        /\ k <= Len(offs)
        /\ \A i \in 1..k :
               /\ ents[i][1] = offs[i]
               /\ ents[i][2] = ReadBytes(ApplyFirst(p, i - 1, 1, precommit[p].data), offs[i],
                                         Len(write_queue[p][offs[i]]))
        /\ files[p].data = ApplyFirst(p, k, 1, precommit[p].data)

\* The commit that has just failed found no sidecar of an earlier commit.
FailedFirstCommit ==
    /\ last.op = "flush" /\ ~last.ok
    /\ last.prev.op = "init"

\* C29: when commit fails, revert(path) restores every path to its content
\* before the commit.
C29_Recoverable ==
    (/\ last.op = "revert" /\ last.ok
     /\ last.prev.op = "flush" /\ ~last.prev.ok)
    => files[last.path] = precommit[last.path]

\* What holds after a failed commit: a path without a sidecar is unchanged,
\* and for a path with a sidecar the entries written to the file are exactly
\* the entries recorded, each with the bytes it displaced.
C29_WrittenIsRecorded ==
    FailedFirstCommit =>
        \A p \in Paths :
            IF sidecar[p].exists
            THEN p \in DOMAIN write_queue /\ \E k \in 0..3 : RecordsFirst(p, k)
            ELSE files[p] = precommit[p]

\* RET at 2, NOP at 4 and NOP at 14 staged for the 16-byte file: the commit
\* fails at offset 14 and the revert leaves bytes of the RET at 4 and 5.
C29_OverlapLost ==
    /\ last.op = "revert" /\ last.ok /\ last.path = MainPath
    /\ last.prev.op = "flush" /\ ~last.prev.ok
    /\ DOMAIN write_queue[MainPath] = {2, 4, 14}
    /\ precommit[MainPath].data[5] = 70
    /\ files[MainPath].data[5] = 95
    /\ ~sidecar[MainPath].exists

\* A failed first commit that had written and recorded one entry of the main
\* file before the range at 14 failed.
C29_PartialCommit ==
    /\ FailedFirstCommit
    /\ DOMAIN write_queue[MainPath] = {4, 14}
    /\ RecordsFirst(MainPath, 1)
    /\ files[MainPath] # precommit[MainPath]

---------------------------------------------------------------------------
\* The write_* calls of the assembler, checked under SpecAsm.

PlainWrites == {"write_nop", "write_ret", "write_movz", "write_blr"}
IncrWrites == {"write_nop_incr", "write_ret_incr", "write_movz_incr", "write_adrp_add_incr"}
IsWrite == res.op \in PlainWrites \cup IncrWrites
\* The instructions a successful call stages.
NumInsts == IF res.op = "write_adrp_add_incr" THEN 2 ELSE 1
StagedNow == IF MainPath \in DOMAIN write_queue THEN write_queue[MainPath] ELSE EmptyMap
\* The file offsets of the instructions of the call.
InstOffs == {FileOffOf(res.args.page, res.args.low) + 4 * i : i \in 0..(NumInsts - 1)}

\* A successful call: the cursor is advanced by 4 per instruction by the
\* _incr variants only, and the queue holds four bytes at the file offset of
\* every instruction of the call and nothing else that is new.
WriteSucceeded ==
    /\ res.cursor = IF res.op \in IncrWrites
                    THEN Addr(res.args.page, res.args.low + 4 * NumInsts)
                    ELSE Addr(res.args.page, res.args.low)
    /\ DOMAIN StagedNow = (DOMAIN StagedBefore) \cup InstOffs
    /\ \A o \in DOMAIN StagedNow : Len(StagedNow[o]) = 4
    /\ \A o \in DOMAIN StagedBefore : StagedNow[o] = StagedBefore[o]

\* A failed call that left the queue and the cursor as they were.
WriteFailedClean ==
    /\ res.why \in {"invalid_argument", "out_of_range"}
    /\ write_queue = res.before
    /\ res.cursor = Addr(res.args.page, res.args.low)

\* The ADD of an ADRP/ADD pair is at an address no mapping holds, while the
\* ADRP is at a mapped one.
AddUnmapped ==
    /\ res.op = "write_adrp_add_incr"
    /\ res.args.page = 2 /\ res.args.low = 4092

\* C30: a write_* call either succeeds, staging its instructions and
\* advancing the cursor of an _incr variant by 4 per instruction, or fails
\* with nothing staged by the call and the cursor unchanged.
C30_AllOrNothing ==
    IsWrite => IF res.ok THEN WriteSucceeded ELSE WriteFailedClean

\* What the calls do: all of the above except that a pair whose ADD address
\* is not mapped fails with the ADRP staged and the cursor advanced by 4.
C30_ActualWrites ==
    IsWrite =>
        IF res.ok THEN WriteSucceeded
        ELSE IF AddUnmapped /\ res.why = "out_of_range"
             THEN /\ res.cursor = Addr(3, 0)
                  /\ DOMAIN StagedNow = (DOMAIN StagedBefore) \cup {8188}
                  /\ \A o \in DOMAIN StagedBefore : StagedNow[o] = StagedBefore[o]
             ELSE WriteFailedClean

\* write_adrp_add_incr at 0x2FFC, the last word of the first mapping, for a
\* target in the same page: the call fails, the ADRP is staged at file
\* offset 0x1FFC and the cursor is 0x3000.
C30_HalfPair ==
    /\ AddUnmapped
    /\ res.args.tpage = 2 /\ res.args.tlow = 291
    /\ ~res.ok /\ res.why = "out_of_range"
    /\ 8188 \in DOMAIN StagedNow
    /\ 8188 \notin DOMAIN StagedBefore
    /\ res.cursor = Addr(3, 0)

\* write_movz_incr of a wide MOVZ with a shift: nothing staged, cursor kept.
C30_MovzRejected ==
    /\ res.op = "write_movz_incr"
    /\ res.args.wide /\ res.args.shift = 1
    /\ ~res.ok /\ res.why = "invalid_argument"
    /\ WriteFailedClean

\* write_movz_incr at the last word of a page: cursor at the next page.
C30_CursorAdvanced ==
    /\ res.op = "write_movz_incr"
    /\ res.args.page = 1 /\ res.args.low = 4092
    /\ res.ok
    /\ res.cursor = Addr(2, 0)
    /\ 4092 \in DOMAIN StagedNow

---------------------------------------------------------------------------
\* The mapping table, checked under SpecLoad.

\* The u64 stored least significant byte first at offset o of the stream.
U64At(o) ==
    LET d == res.data
        Half(k) == d[o + k + 1] + 256 * d[o + k + 2]
    IN  FromLimbs(Half(6), Half(4), Half(2), Half(0))
\* The record whose three fields start at offset o.
RecordAt(o) == Mapping(U64At(o), U64At(o + 8), U64At(o + 16))
TableOff == res.data[17]
TableCount == res.data[21]
ReadsRecords == res.type # "Symbols" /\ TableOff # 0 /\ TableCount # 0
\* The mapping list is the TableCount records stride bytes apart from TableOff.
RecordsEvery(stride) ==
    /\ Len(res.r.value) = TableCount
    /\ \A i \in 0..(TableCount - 1) : res.r.value[i + 1] = RecordAt(TableOff + stride * i)

\* C27 as stated: record i is taken from offset off + 40*i.
C27_AsStated ==
    (res.op = "mappings" /\ res.r.ok /\ ReadsRecords) => RecordsEvery(40)

\* C27 amended: when the role is not Symbols and offset and count at 0x10
\* are both non-zero, the mapping list holds exactly the count records taken
\* from offsets off + 32*i, in order (three u64 and 8 bytes skipped per
\* record); otherwise the list is empty.
C27_MappingRecords ==
    (res.op = "mappings" /\ res.r.ok) =>
        IF ReadsRecords THEN RecordsEvery(32) ELSE res.r.value = <<>>

\* Three records read from offset 40 of a 136-byte stream: the third starts
\* at 104 and the stream stands at its end.
C27_Witness ==
    /\ res.op = "mappings" /\ res.type = "Main"
    /\ res.r.ok
    /\ TableOff = 40 /\ TableCount = 3
    /\ Len(res.data) = 136
    /\ Len(res.r.value) = 3
    /\ res.r.value[3] = RecordAt(104)
    /\ res.r.value[3].base[1] = ((105 * 7 + 3) % 256) + 256 * ((106 * 7 + 3) % 256)
    /\ res.r.st.pos = 136

====
